---------------------------- MODULE Spec2Model ----------------------------
(***************************************************************************)
(* Agent coordination substrate of agentSquad: the publish/subscribe       *)
(* MessageBus (src/message_bus.py), the role/authority table and the       *)
(* requires_authority guard (src/authorities.py), and the lifecycle and    *)
(* run loop of BaseAgent (src/base_agent.py).                              *)
(*                                                                         *)
(* publish() is modelled at the granularity of its await points: lines     *)
(* 125-147 (history append, computation of the recipient set) contain no   *)
(* await and are one step; every iteration of the delivery loop (lines     *)
(* 150-156) awaits Queue.put and is a step of its own, so other tasks may  *)
(* run between two deliveries of the same publish.                         *)
(***************************************************************************)
EXTENDS Integers, Sequences, FiniteSets, TLC

(***************************************************************************)
(* Bounds of the model.                                                    *)
(***************************************************************************)
\* identities that may register on the bus
Agents == {"alpha", "bravo", "charlie"}
\* message_type tags
Types == {"ping", "update"}
\* total number of publish() calls in one behaviour
MaxPublishes == 1
\* MessageBus._max_history (1000 in the source), scaled down so that
\* eviction is reachable
max_history == 2

\* the broadcast sentinel (message_bus.py line 21)
ALL == "all"

VARIABLES
    agent_queues,     \* MessageBus._agent_queues: identity -> queue (a sequence)
    subscriptions,    \* MessageBus._subscriptions: message_type -> list of identities
    message_history,  \* MessageBus._message_history
    publishing,       \* publish() calls suspended in the delivery loop
    next_id,          \* number of Message objects constructed so far
    mailbox_log,      \* history variable: every message put in an identity's queue, in put order
    received,         \* history variable: every message receive() returned, per identity
    queues_before,    \* history variable: the queues when the publish observed by Spec was called
    actor,            \* the object whose guard-wrapped methods are called
    required,         \* the authority requires_authority was applied with
    drone_state,      \* the state the guarded operation body modifies
    pending_async,    \* guarded coroutines that passed the check and are suspended
    call_result,      \* outcome of the last call through each wrapper
    lookup_result,    \* outcome of the last get_role_authorities / has_authority call
    receiving,        \* receive() calls suspended in queue.get(): caller -> call
    detached,         \* queues deleted from _agent_queues that a suspended receive still holds
    result,           \* outcome of the last call (bus, start, stop) of the observed caller
    _running,         \* BaseAgent._running
    _task,            \* BaseAgent._task: number of the task start() created last, 0 for None
    tasks,            \* the _run_loop tasks created so far: number -> position
    stopping,         \* tasks a stop() call is awaiting (line 177)
    audit_log,        \* rows context_manager.log_message inserted
    dispatched,       \* history variable: messages handed to handle_message, in order
    introduced,       \* history variable: messages handed to _handle_introduction, in order
    failed,           \* history variable: ids of the messages whose processing raised
    stop_returned,    \* history variable: a stop() call returned since the last start()
    noop_changed      \* history variable: a start() on a running or a stop() on a stopped agent changed something

bus_vars == <<agent_queues, subscriptions, message_history, publishing,
              next_id, mailbox_log, received, queues_before>>

guard_vars == <<actor, required, drone_state, pending_async, call_result, lookup_result>>

call_vars == <<receiving, detached, result>>

agent_vars == <<_running, _task, tasks, stopping, audit_log, dispatched, introduced, failed,
                stop_returned, noop_changed>>

vars == <<agent_queues, subscriptions, message_history, publishing,
          next_id, mailbox_log, received, queues_before,
          actor, required, drone_state, pending_async, call_result, lookup_result,
          receiving, detached, result,
          _running, _task, tasks, stopping, audit_log, dispatched, introduced, failed,
          stop_returned, noop_changed>>

(***************************************************************************)
(* Helpers on sequences.                                                   *)
(***************************************************************************)
Range(s) == {s[i] : i \in 1..Len(s)}

\* list.remove(x) on a list: drops the first occurrence of x
RECURSIVE list_remove(_, _)
list_remove(s, x) ==
    IF s = <<>> THEN <<>>
    ELSE IF Head(s) = x THEN Tail(s)
    ELSE <<Head(s)>> \o list_remove(Tail(s), x)

\* number of occurrences of x in s
RECURSIVE Count(_, _)
Count(x, s) ==
    IF s = <<>> THEN 0
    ELSE (IF Head(s) = x THEN 1 ELSE 0) + Count(x, Tail(s))

\* dict with key k removed / set
dict_del(d, k) == [x \in (DOMAIN d) \ {k} |-> d[x]]
dict_set(d, k, v) == [x \in (DOMAIN d) \cup {k} |-> IF x = k THEN v ELSE d[x]]

(***************************************************************************)
(* Message (message_bus.py lines 16-30).  id stands for the identity of    *)
(* the Message object (its content and timestamp).                         *)
(***************************************************************************)
Message(sender, recipient, message_type, id) ==
    [sender |-> sender, recipient |-> recipient,
     message_type |-> message_type, id |-> id]

Recipients == Agents \cup {ALL}

(***************************************************************************)
(* MessageBus.__init__                                                     *)
(***************************************************************************)
BusInit ==
    /\ agent_queues = <<>>
    /\ subscriptions = <<>>
    /\ message_history = <<>>
    /\ publishing = {}
    /\ next_id = 0
    /\ mailbox_log = [a \in Agents |-> <<>>]
    /\ received = [a \in Agents |-> <<>>]
    /\ queues_before = <<>>

(***************************************************************************)
(* register_agent / unregister_agent / subscribe / unsubscribe             *)
(***************************************************************************)
\* mutation: the membership test of line 65 is missing, a new queue
\* replaces the existing one
register_agent_fresh(agent_role) ==
    /\ agent_queues' = dict_set(agent_queues, agent_role, <<>>)
    /\ UNCHANGED <<subscriptions, message_history, publishing, next_id,
                   mailbox_log, received>>

register_agent(agent_role) ==
    /\ agent_queues' = IF agent_role \in DOMAIN agent_queues
                         THEN agent_queues
                         ELSE dict_set(agent_queues, agent_role, <<>>)
    /\ UNCHANGED <<subscriptions, message_history, publishing, next_id,
                   mailbox_log, received>>

\* mutation: the loop of lines 85-87 is missing, the subscriptions stay
unregister_agent_keep_subscriptions(agent_role) ==
    /\ agent_queues' = IF agent_role \in DOMAIN agent_queues
                         THEN dict_del(agent_queues, agent_role)
                         ELSE agent_queues
    /\ UNCHANGED <<subscriptions, message_history, publishing, next_id,
                   mailbox_log, received>>

unregister_agent(agent_role) ==
    /\ agent_queues' = IF agent_role \in DOMAIN agent_queues
                         THEN dict_del(agent_queues, agent_role)
                         ELSE agent_queues
    /\ subscriptions' = [t \in DOMAIN subscriptions |->
                            IF agent_role \in Range(subscriptions[t])
                              THEN list_remove(subscriptions[t], agent_role)
                              ELSE subscriptions[t]]
    /\ UNCHANGED <<message_history, publishing, next_id, mailbox_log, received>>

\* mutation: the membership test of line 99 is missing
subscribe_append(agent_role, message_type) ==
    LET d == IF message_type \notin DOMAIN subscriptions
               THEN dict_set(subscriptions, message_type, <<>>)
               ELSE subscriptions
    IN  /\ subscriptions' = [d EXCEPT ![message_type] = Append(@, agent_role)]
        /\ UNCHANGED <<agent_queues, message_history, publishing, next_id,
                       mailbox_log, received>>

\* mutation: an identity that is not registered is not subscribed
subscribe_registered_only(agent_role, message_type) ==
    LET d == IF message_type \notin DOMAIN subscriptions
               THEN dict_set(subscriptions, message_type, <<>>)
               ELSE subscriptions
    IN  /\ subscriptions' = IF agent_role \notin Range(d[message_type])
                                  /\ agent_role \in DOMAIN agent_queues
                              THEN [d EXCEPT ![message_type] = Append(@, agent_role)]
                              ELSE d
        /\ UNCHANGED <<agent_queues, message_history, publishing, next_id,
                       mailbox_log, received>>

\* lines 89-101: the identity is appended to the list of the type unless it
\* is in it; whether it is registered is not looked at
subscribe(agent_role, message_type) ==
    LET d == IF message_type \notin DOMAIN subscriptions
               THEN dict_set(subscriptions, message_type, <<>>)
               ELSE subscriptions
    IN  /\ subscriptions' = IF agent_role \notin Range(d[message_type])
                              THEN [d EXCEPT ![message_type] = Append(@, agent_role)]
                              ELSE d
        /\ UNCHANGED <<agent_queues, message_history, publishing, next_id,
                       mailbox_log, received>>

unsubscribe(agent_role, message_type) ==
    /\ subscriptions' =
         IF message_type \in DOMAIN subscriptions
              /\ agent_role \in Range(subscriptions[message_type])
           THEN [subscriptions EXCEPT ![message_type] = list_remove(@, agent_role)]
           ELSE subscriptions
    /\ UNCHANGED <<agent_queues, message_history, publishing, next_id,
                   mailbox_log, received>>

(***************************************************************************)
(* publish (message_bus.py lines 115-162)                                  *)
(***************************************************************************)
\* mutation: the newest entry is evicted
history_append_drop_newest(h, message) ==
    LET h1 == Append(h, message)
    IN  IF Len(h1) > max_history THEN SubSeq(h1, 1, max_history) ELSE h1

\* lines 125-128: append, then evict the oldest entry beyond _max_history
history_append(h, message) ==
    LET h1 == Append(h, message)
    IN  IF Len(h1) > max_history THEN Tail(h1) ELSE h1

\* mutation: the sender is excluded as a named recipient too
named_recipient_not_sender(message) ==
    IF message.recipient # ALL /\ message.recipient \in DOMAIN agent_queues
          /\ message.recipient # message.sender
      THEN {message.recipient} ELSE {}

\* lines 132-134: the named recipient, if it is not the sentinel and is registered
named_recipient(message) ==
    IF message.recipient # ALL /\ message.recipient \in DOMAIN agent_queues
      THEN {message.recipient} ELSE {}

\* mutation: the test of line 140 is missing, the sender is not excluded
type_subscribers_echo(message) ==
    IF message.message_type \in DOMAIN subscriptions
      THEN Range(subscriptions[message.message_type])
      ELSE {}

\* lines 136-141: the subscribers of the message's type, except the sender
type_subscribers(message) ==
    IF message.message_type \in DOMAIN subscriptions
      THEN {a \in Range(subscriptions[message.message_type]) : a # message.sender}
      ELSE {}

\* mutation: the test of line 144 is missing, every message is a broadcast
broadcast_recipients_always(message) ==
    {a \in DOMAIN agent_queues : a # message.sender}

\* mutation: the sender is not excluded from its own broadcast
broadcast_recipients_echo(message) ==
    IF message.recipient = ALL THEN DOMAIN agent_queues ELSE {}

\* lines 143-147: broadcast: every registered identity except the sender
broadcast_recipients(message) ==
    IF message.recipient = ALL
      THEN {a \in DOMAIN agent_queues : a # message.sender}
      ELSE {}

\* lines 130-147: the recipients set
recipients_of(message) ==
    named_recipient(message) \cup type_subscribers(message)
        \cup broadcast_recipients(message)

\* mutation: recipients is a list, an identity is in it once per rule that
\* added it
delivery_multiset_list(message) ==
    [a \in Agents |->
        (IF a \in named_recipient(message) THEN 1 ELSE 0)
      + (IF a \in type_subscribers(message) THEN 1 ELSE 0)
      + (IF a \in broadcast_recipients(message) THEN 1 ELSE 0)]

\* lines 130-147 build recipients as a set: each identity is in it at most
\* once, however many of the three rules added it.  The multiset of
\* deliveries the loop of line 150 still has to make: identity -> count
delivery_multiset(message) ==
    [a \in Agents |-> IF a \in recipients_of(message) THEN 1 ELSE 0]

\* mutation: a queue of capacity one whose overflow is dropped
queue_put_bounded(q, message) == IF Len(q) >= 1 THEN q ELSE Append(q, message)

\* asyncio.Queue.put on the unbounded queue register_agent creates (line 69)
queue_put(q, message) == Append(q, message)

\* mutation: publish returns before line 126 when nobody is to receive
publish_begin_skip_empty(sender, recipient, message_type) ==
    LET message == Message(sender, recipient, message_type, next_id + 1)
    IN  /\ message_history' = IF recipients_of(message) = {}
                                THEN message_history
                                ELSE history_append(message_history, message)
        /\ next_id' = next_id + 1
        /\ publishing' = publishing \cup
              {[message |-> message, pending |-> delivery_multiset(message),
                recipients |-> recipients_of(message), skipped |-> {}]}
        /\ UNCHANGED <<agent_queues, subscriptions, mailbox_log, received>>

\* mutation: the queue is created with maxsize 1
queue_full_bounded(q) == Len(q) >= 1

\* asyncio.Queue.full() for the queue of line 69, created without maxsize:
\* never full, so put (line 152) does not wait for a get
queue_full(q) == FALSE

\* lines 125-147, up to the first await of the delivery loop
publish_begin(sender, recipient, message_type) ==
    LET message == Message(sender, recipient, message_type, next_id + 1)
    IN  /\ message_history' = history_append(message_history, message)
        /\ next_id' = next_id + 1
        /\ publishing' = publishing \cup
              {[message |-> message, pending |-> delivery_multiset(message),
                recipients |-> recipients_of(message), skipped |-> {}]}
        /\ UNCHANGED <<agent_queues, subscriptions, mailbox_log, received>>

\* mutation: the test of line 151 is missing; indexing the dictionary with
\* an identity that was unregistered raises KeyError and the publish ends
\* with the rest of its recipients unserved
publish_deliver_unchecked(p, recipient) ==
    LET registered == recipient \in DOMAIN agent_queues
        q2 == IF registered
                THEN [agent_queues EXCEPT ![recipient] = queue_put(@, p.message)]
                ELSE agent_queues
    IN  /\ p.pending[recipient] > 0
        /\ agent_queues' = q2
        /\ mailbox_log' =
             [a \in Agents |->
                IF a \in DOMAIN agent_queues
                  THEN mailbox_log[a] \o
                         SubSeq(q2[a], Len(agent_queues[a]) + 1, Len(q2[a]))
                  ELSE mailbox_log[a]]
        /\ publishing' =
             IF registered
               THEN (publishing \ {p}) \cup {[p EXCEPT !.pending[recipient] = @ - 1]}
               ELSE publishing \ {p}
        /\ UNCHANGED <<subscriptions, message_history, next_id, received>>

\* lines 150-156: one iteration of the delivery loop.  The loop visits the
\* elements of the set in an order the set implementation picks: any
\* pending recipient may be the next one
publish_deliver(p, recipient) ==
    LET registered == recipient \in DOMAIN agent_queues
        q2 == IF registered
                THEN [agent_queues EXCEPT ![recipient] = queue_put(@, p.message)]
                ELSE agent_queues
    IN  /\ p.pending[recipient] > 0
        /\ registered => ~queue_full(agent_queues[recipient])
        /\ agent_queues' = q2
        /\ mailbox_log' =
             [a \in Agents |->
                IF a \in DOMAIN agent_queues
                  THEN mailbox_log[a] \o
                         SubSeq(q2[a], Len(agent_queues[a]) + 1, Len(q2[a]))
                  ELSE mailbox_log[a]]
        /\ publishing' = (publishing \ {p}) \cup
             {[p EXCEPT !.pending[recipient] = @ - 1,
                        !.skipped = IF registered THEN @ ELSE @ \cup {recipient}]}
        /\ UNCHANGED <<subscriptions, message_history, next_id, received>>

\* the delivery loop of a suspended publish is over
loop_done(p) == \A a \in Agents : p.pending[a] = 0

\* lines 158-162: the loop is over; publish returns
publish_return(p) ==
    /\ loop_done(p)
    /\ publishing' = publishing \ {p}
    /\ UNCHANGED <<agent_queues, subscriptions, message_history, next_id,
                   mailbox_log, received>>

\* lines 125-162 as one step: Queue.put on the unbounded queue of line 69
\* returns without suspending, so a publish that is not interleaved with
\* other tasks runs from its call to its return
publish_now(sender, recipient, message_type) ==
    LET message == Message(sender, recipient, message_type, next_id + 1)
        recipients == recipients_of(message) \cap DOMAIN agent_queues
    IN  /\ message_history' = history_append(message_history, message)
        /\ next_id' = next_id + 1
        /\ agent_queues' = [a \in DOMAIN agent_queues |->
                               IF a \in recipients
                                 THEN queue_put(agent_queues[a], message)
                                 ELSE agent_queues[a]]
        /\ mailbox_log' = [a \in Agents |->
                              IF a \in recipients
                                THEN Append(mailbox_log[a], message)
                                ELSE mailbox_log[a]]
        /\ UNCHANGED <<subscriptions, publishing, received>>

(***************************************************************************)
(* receive (message_bus.py lines 190-212), the case where queue.get()      *)
(* returns a message                                                       *)
(***************************************************************************)
\* mutation: the newest item is taken
queue_get_lifo(q) == [item |-> q[Len(q)], rest |-> SubSeq(q, 1, Len(q) - 1)]

\* mutation: the item is read and left in the queue
queue_get_peek(q) == [item |-> Head(q), rest |-> q]

\* asyncio.Queue.get: the oldest item
queue_get(q) == [item |-> Head(q), rest |-> Tail(q)]

receive(agent_role) ==
    /\ agent_role \in DOMAIN agent_queues
    /\ agent_queues[agent_role] # <<>>
    /\ LET g == queue_get(agent_queues[agent_role])
       IN  /\ agent_queues' = [agent_queues EXCEPT ![agent_role] = g.rest]
           /\ received' = [received EXCEPT ![agent_role] = Append(@, g.item)]
    /\ UNCHANGED <<subscriptions, message_history, publishing, next_id, mailbox_log>>

(***************************************************************************)
(* Authority, ROLE_AUTHORITIES (authorities.py lines 15-74)                *)
(***************************************************************************)
Authority ==
    {"READ_SENSOR_DATA", "READ_INTEL", "READ_COP", "READ_PLANS",
     "READ_DRONE_STATUS", "WRITE_PROCESSED_INTEL", "WRITE_COP", "WRITE_PLANS",
     "WRITE_COLLECTION_TASKS", "COMMAND_DRONES", "CREATE_COLLECTION_TASKS",
     "MODIFY_PLANS"}

\* mutation: mission_planner is also given COMMAND_DRONES
ROLE_AUTHORITIES_wide ==
    ("collection_processor" :>
        {"READ_SENSOR_DATA", "READ_INTEL", "WRITE_PROCESSED_INTEL"})
 @@ ("intelligence_analyst" :>
        {"READ_COP", "WRITE_COP"})
 @@ ("mission_planner" :>
        {"READ_COP", "READ_PLANS", "READ_DRONE_STATUS", "WRITE_PLANS",
         "MODIFY_PLANS", "COMMAND_DRONES"})
 @@ ("collection_manager" :>
        {"READ_COP", "READ_PLANS", "READ_DRONE_STATUS",
         "WRITE_COLLECTION_TASKS", "CREATE_COLLECTION_TASKS", "COMMAND_DRONES"})

ROLE_AUTHORITIES ==
    ("collection_processor" :>
        {"READ_SENSOR_DATA", "READ_INTEL", "WRITE_PROCESSED_INTEL"})
 @@ ("intelligence_analyst" :>
        {"READ_COP", "WRITE_COP"})
 @@ ("mission_planner" :>
        {"READ_COP", "READ_PLANS", "READ_DRONE_STATUS", "WRITE_PLANS",
         "MODIFY_PLANS"})
 @@ ("collection_manager" :>
        {"READ_COP", "READ_PLANS", "READ_DRONE_STATUS",
         "WRITE_COLLECTION_TASKS", "CREATE_COLLECTION_TASKS", "COMMAND_DRONES"})

\* role strings handed to the authority functions: the four defined roles
\* and two that the table does not define
RoleInputs ==
    {"collection_processor", "intelligence_analyst", "mission_planner",
     "collection_manager", "ghost", "invalid_role"}

\* outcome of a call: the exception it raised ("none": it returned) and
\* the value it returned
Returned(v) == [raised |-> "none", value |-> v]
Raised(e) == [raised |-> e, value |-> "none"]

\* authorities.py lines 77-91
get_role_authorities(role) ==
    IF role \notin DOMAIN ROLE_AUTHORITIES
      THEN Raised("ValueError")
      ELSE Returned(ROLE_AUTHORITIES[role])

\* mutation: the ValueError of the lookup is not caught
has_authority_uncaught(role, authority) ==
    LET role_auths == get_role_authorities(role)
    IN  IF role_auths.raised # "none" THEN role_auths
        ELSE Returned(authority \in role_auths.value)

\* authorities.py lines 94-108: the ValueError of the lookup is caught
has_authority(role, authority) ==
    LET role_auths == get_role_authorities(role)
    IN  IF role_auths.raised = "ValueError" THEN Returned(FALSE)
        ELSE IF role_auths.raised # "none" THEN role_auths
        ELSE Returned(authority \in role_auths.value)

(***************************************************************************)
(* requires_authority (authorities.py lines 111-203) applied to an         *)
(* operation of an actor object, as tests/test_authorities.py lines 57-63  *)
(* and 80-86 do: command_drone (blocking) and command_drone_async          *)
(* (suspending).  The body of the operation changes drone_state and        *)
(* returns a value that depends on its argument.                           *)
(***************************************************************************)
\* number of times the guarded operation body may run in one behaviour
MaxCommands == 2

\* arguments of the guarded operation
Commands == {"hold", "rtb"}

\* the objects the wrapped methods are called on: with a role attribute
\* (any role string), or without one
Actors ==
    {[has_role |-> TRUE, role |-> r] : r \in RoleInputs}
        \cup {[has_role |-> FALSE, role |-> "none"]}

\* the operation body: what it returns
command_result(command) == <<"Command sent", command>>

\* the operation body: what it does to the state
command_effect(state) == state + 1

NoCall == [called |-> FALSE]

\* mutation: the authority check is missing
sync_wrapper_check_open(self, authority) ==
    IF ~self.has_role THEN "AttributeError" ELSE "ok"

\* mutation: the decision of the first call is kept for the later calls
sync_wrapper_check_cached(self, authority) ==
    IF call_result["sync"].called
      THEN IF call_result["sync"].raised = "none"
             THEN "ok" ELSE call_result["sync"].raised
    ELSE IF ~self.has_role THEN "AttributeError"
    ELSE IF has_authority(self.role, authority).value # TRUE
      THEN "UnauthorizedActionError"
    ELSE "ok"

\* lines 165-182: hasattr check, then the authority check, of sync_wrapper
sync_wrapper_check(self, authority) ==
    IF ~self.has_role THEN "AttributeError"
    ELSE IF has_authority(self.role, authority).value # TRUE
      THEN "UnauthorizedActionError"
    ELSE "ok"

\* mutation: a role the table does not define passes the check
async_wrapper_check_unknown(self, authority) ==
    IF ~self.has_role THEN "AttributeError"
    ELSE IF self.role \in DOMAIN ROLE_AUTHORITIES
            /\ has_authority(self.role, authority).value # TRUE
      THEN "UnauthorizedActionError"
    ELSE "ok"

\* lines 132-149: hasattr check, then the authority check, of async_wrapper
async_wrapper_check(self, authority) ==
    IF ~self.has_role THEN "AttributeError"
    ELSE IF has_authority(self.role, authority).value # TRUE
      THEN "UnauthorizedActionError"
    ELSE "ok"

\* the record of a finished call; body_runs is the change of drone_state
\* in the step that finished it
CallRecord(self, authority, command, raised, value, before, after) ==
    [called |-> TRUE, authority |-> authority, command |-> command,
     raised |-> raised, value |-> value,
     error_role |-> IF raised = "UnauthorizedActionError" THEN self.role ELSE "none",
     error_authority |-> IF raised = "UnauthorizedActionError" THEN authority ELSE "none",
     body_runs |-> after - before]

\* lines 164-194: sync_wrapper, a blocking call, start to end
sync_wrapper(command) ==
    LET authority == required
        check == sync_wrapper_check(actor, authority)
        after == IF check = "ok" THEN command_effect(drone_state) ELSE drone_state
    IN  /\ drone_state' = after
        /\ call_result' = [call_result EXCEPT !["sync"] =
              IF check = "ok"
                THEN CallRecord(actor, authority, command, "none",
                                command_result(command), drone_state, after)
                ELSE CallRecord(actor, authority, command, check, "none",
                                drone_state, after)]
        /\ UNCHANGED <<actor, required, pending_async, lookup_result>>

\* lines 131-161 up to the await: the checks of async_wrapper; on success
\* the coroutine of the body is awaited
async_wrapper_begin(command) ==
    LET authority == required
        check == async_wrapper_check(actor, authority)
    IN  /\ pending_async = {}
        /\ IF check = "ok"
             THEN /\ pending_async' = {[authority |-> authority, command |-> command]}
                  /\ call_result' = [call_result EXCEPT !["async"] = NoCall]
             ELSE /\ pending_async' = pending_async
                  /\ call_result' = [call_result EXCEPT !["async"] =
                        CallRecord(actor, authority, command, check, "none",
                                   drone_state, drone_state)]
        /\ UNCHANGED <<actor, required, drone_state, lookup_result>>

\* line 161: "return await func(...)": the body runs and its result is returned
async_wrapper_await(c) ==
    LET after == command_effect(drone_state)
    IN  /\ c \in pending_async
        /\ pending_async' = pending_async \ {c}
        /\ drone_state' = after
        /\ call_result' = [call_result EXCEPT !["async"] =
              CallRecord(actor, c.authority, c.command, "none",
                         command_result(c.command), drone_state, after)]
        /\ UNCHANGED <<actor, required, lookup_result>>

\* a call of get_role_authorities or has_authority, its outcome recorded
lookup(fn, role, authority) ==
    /\ lookup_result' = [lookup_result EXCEPT ![fn] =
         [called |-> TRUE, role |-> role, authority |-> authority,
          outcome |-> IF fn = "has_authority"
                        THEN has_authority(role, authority)
                        ELSE get_role_authorities(role)]]
    /\ UNCHANGED <<actor, required, drone_state, pending_async, call_result>>

LookupFns == {"get_role_authorities", "has_authority"}

\* no call made yet
GuardIdle ==
    /\ drone_state = 0
    /\ pending_async = {}
    /\ call_result = [w \in {"sync", "async"} |-> NoCall]
    /\ lookup_result = [fn \in LookupFns |-> NoCall]

\* an actor object is constructed and an authority is bound by the decorator
GuardInit ==
    /\ actor \in Actors
    /\ required \in Authority
    /\ GuardIdle

\* the guard variables in the specifications that call no guarded operation
NoGuard ==
    /\ actor = [has_role |-> FALSE, role |-> "none"]
    /\ required = "none"
    /\ GuardIdle

(***************************************************************************)
(* receive (message_bus.py lines 190-212) as a call that may suspend, and  *)
(* get_message_history (lines 225-234).                                    *)
(***************************************************************************)
\* no message: what receive returns as None
NoMessage == Message("none", "none", "none", 0)

\* the timeout argument: None, or a number of seconds
NoTimeout == [given |-> FALSE, seconds |-> 0]
Seconds(n) == [given |-> TRUE, seconds |-> n]
Timeouts == {NoTimeout, Seconds(0), Seconds(1), Seconds(0 - 1)}

\* mutation: the dictionary is indexed without the membership test
receive_check_keyerror(agent_role) ==
    IF agent_role \notin DOMAIN agent_queues
      THEN Raised("KeyError") ELSE Returned("queue")

\* lines 200-201
receive_check(agent_role) ==
    IF agent_role \notin DOMAIN agent_queues
      THEN Raised("ValueError") ELSE Returned("queue")

\* line 206, `if timeout:`: the truth value of the argument decides whether
\* queue.get() is awaited under asyncio.wait_for
wait_has_timer(timeout) == timeout.given /\ timeout.seconds # 0

\* line 203: the queue object a suspended call holds; unregister_agent
\* deletes the dictionary entry, not the object
queue_of(call) ==
    IF call.detached THEN detached[call.key]
    ELSE IF call.agent_role \in DOMAIN agent_queues
      THEN agent_queues[call.agent_role] ELSE <<>>

\* the deleted queues some suspended call in calls still holds
held(d, calls) ==
    [k \in {calls[c].key : c \in {x \in DOMAIN calls : calls[x].detached}} |-> d[k]]

\* lines 200-209 up to the await of queue.get()
receive_begin(caller, agent_role, timeout) ==
    /\ caller \notin DOMAIN receiving
    /\ receive_check(agent_role).raised = "none"
    /\ receiving' = receiving @@
          (caller :> [agent_role |-> agent_role, timeout |-> timeout,
                      detached |-> FALSE, key |-> 0])
    /\ UNCHANGED <<agent_queues, subscriptions, message_history, publishing,
                   next_id, mailbox_log, received, detached>>

\* lines 207-210: queue.get() returns the oldest item of the queue
receive_get(caller) ==
    /\ caller \in DOMAIN receiving
    /\ queue_of(receiving[caller]) # <<>>
    /\ LET call == receiving[caller]
           g == queue_get(queue_of(call))
           rest == [c \in (DOMAIN receiving) \ {caller} |-> receiving[c]]
       IN  /\ receiving' = rest
           /\ IF call.detached
                THEN /\ detached' = held([detached EXCEPT ![call.key] = g.rest], rest)
                     /\ UNCHANGED agent_queues
                ELSE /\ agent_queues' = [agent_queues EXCEPT ![call.agent_role] = g.rest]
                     /\ UNCHANGED detached
           /\ received' = [received EXCEPT ![call.agent_role] = Append(@, g.item)]
    /\ UNCHANGED <<subscriptions, message_history, publishing, next_id, mailbox_log>>

\* the call leaves queue.get() without an item: the timer of wait_for fired
\* (lines 211-212), or the calling task was cancelled
receive_leave(caller) ==
    /\ caller \in DOMAIN receiving
    /\ LET rest == [c \in (DOMAIN receiving) \ {caller} |-> receiving[c]]
       IN  /\ receiving' = rest
           /\ detached' = held(detached, rest)
    /\ UNCHANGED <<agent_queues, subscriptions, message_history, publishing,
                   next_id, mailbox_log, received>>

\* lines 207, 211-212: asyncio.wait_for raises TimeoutError, receive returns None
receive_timeout(caller) ==
    /\ caller \in DOMAIN receiving
    /\ wait_has_timer(receiving[caller].timeout)
    /\ receive_leave(caller)

\* unregister_agent line 81 while receive calls are suspended on the queue:
\* the calls keep the queue object and what it holds
detach_waiters(agent_role) ==
    LET waiting == {c \in DOMAIN receiving :
                      /\ receiving[c].agent_role = agent_role
                      /\ ~receiving[c].detached}
        key == CHOOSE k \in 1..(Cardinality(DOMAIN detached) + 1) :
                      k \notin DOMAIN detached
    IN  IF waiting = {} \/ agent_role \notin DOMAIN agent_queues
          THEN UNCHANGED <<receiving, detached>>
          ELSE /\ receiving' =
                    [c \in DOMAIN receiving |->
                       IF c \in waiting
                         THEN [receiving[c] EXCEPT !.detached = TRUE, !.key = key]
                         ELSE receiving[c]]
               /\ detached' = detached @@ (key :> agent_queues[agent_role])

\* Python slice h[start:] for a list h and an integer start
slice_from(h, start) ==
    LET from == IF start < 0
                  THEN (IF start + Len(h) < 0 THEN 0 ELSE start + Len(h))
                  ELSE (IF start > Len(h) THEN Len(h) ELSE start)
    IN  SubSeq(h, from + 1, Len(h))

\* list(reversed(h))
reversed(h) == [i \in 1..Len(h) |-> h[Len(h) + 1 - i]]

\* line 234
get_message_history(limit) == reversed(slice_from(message_history, 0 - limit))

\* lines 65-72: register_agent returns the queue of the identity, the
\* existing one (line 67) or the one it created (line 72)
register_agent_result(agent_role) ==
    IF agent_role \in DOMAIN agent_queues
      THEN Returned(agent_queues[agent_role]) ELSE Returned(<<>>)

\* lines 89-113: subscribe and unsubscribe have no raise statement and
\* return None
subscribe_result(agent_role, message_type) == Returned("None")

\* mutation: an identity that is not registered is an error
unregister_agent_result_strict(agent_role) ==
    IF agent_role \in DOMAIN agent_queues
      THEN Returned("None") ELSE Raised("ValueError")

\* lines 74-87: unregister_agent has no raise statement and returns None
unregister_agent_result(agent_role) == Returned("None")

\* lines 115-162: publish has no raise statement and returns None
publish_result(message) == Returned("None")

\* the outcome of a call, as the caller observes it
CallResult(op, agent_role) ==
    [op |-> op, agent_role |-> agent_role, timeout |-> NoTimeout, limit |-> 0,
     registered |-> FALSE, pending |-> FALSE, raised |-> "none",
     message |-> NoMessage, messages |-> <<>>, history |-> <<>>,
     history_after |-> <<>>, enqueued |-> 0,
     queues_changed |-> FALSE, early |-> FALSE,
     message_type |-> "none", subscribed |-> FALSE, branch |-> "none"]

\* no receive call is suspended and the observed caller has called nothing
NoCalls ==
    /\ receiving = <<>>
    /\ detached = <<>>
    /\ result = CallResult("none", "none")

(***************************************************************************)
(* BaseAgent (base_agent.py): start (lines 158-166), stop (168-181),       *)
(* _run_loop (183-206) and _handle_message (208-240) of one agent object.  *)
(* A _run_loop task is modelled at the granularity of its await points:    *)
(*   "created"         the task exists and has not run yet                 *)
(*   "receive"         await message_bus.receive(...)          (line 193)  *)
(*   "log_message"     await context_manager.log_message(...)  (line 221)  *)
(*   "handle_message"  await of the handler              (line 230 or 234) *)
(*   "sleep"           await asyncio.sleep(1)                  (line 204)  *)
(*   "done"            the coroutine returned                              *)
(*   "cancelled"       CancelledError left the coroutine                   *)
(*   "joined"          the task finished and stop() has awaited it         *)
(***************************************************************************)
\* self.role: the identity the agent object was constructed with (line 50)
self_role == "alpha"

\* the timeout the loop passes to receive (line 193)
loop_timeout == Seconds(1)

NewTask == [pc |-> "created", cancel |-> "no", message |-> NoMessage,
            stopped_in |-> "none"]

Live(t) == t.pc \notin {"done", "cancelled", "joined"}

\* the suspended receive calls other than the one of caller n
calls_without(n) == [c \in (DOMAIN receiving) \ {n} |-> receiving[c]]

\* mutation: a second start spawns a second loop
start_spawns_always(running) == TRUE

\* lines 160-162: start returns early when the agent is running
start_spawns(running) == ~running

\* start(): there is no await in it
start ==
    /\ IF start_spawns(_running)
         THEN /\ _running' = TRUE
              /\ tasks' = Append(tasks, NewTask)
              /\ _task' = Len(tasks) + 1
         ELSE UNCHANGED <<_running, _task, tasks>>
    /\ stop_returned' = FALSE
    /\ result' = [CallResult("start", self_role) EXCEPT !.early = _running]
    /\ noop_changed' = (noop_changed \/
          (_running /\ <<_running', _task', tasks'>> # <<_running, _task, tasks>>))
    /\ UNCHANGED <<stopping, audit_log, dispatched, introduced, failed>>

\* what the loop is doing when stop() cancels it
situation(n) ==
    LET t == tasks[n]
    IN  CASE t.pc = "created" -> "created"
          [] t.pc = "receive" ->
               IF n \in DOMAIN receiving /\ queue_of(receiving[n]) # <<>>
                 THEN "message_waiting" ELSE "empty_mailbox"
          [] t.pc \in {"log_message", "handle_message"} -> "handling"
          [] t.pc = "sleep" -> "sleeping"
          [] OTHER -> "finished"

\* Task.cancel() (line 175).  A task that finished is not affected.  A task
\* suspended in asyncio.wait_for whose queue.get() already has an item
\* either gets CancelledError with the item left in the queue, or gets the
\* item with the cancellation dropped: wait_for of Python 3.10 and 3.11
\* returns the result of a completed inner future in its CancelledError
\* handler, wait_for of Python 3.12 raises.  Everywhere else CancelledError
\* is raised at the await the task is suspended in.
cancel_outcomes(n) ==
    IF ~Live(tasks[n]) \/ tasks[n].cancel # "no" THEN {tasks[n].cancel}
    ELSE IF situation(n) = "message_waiting" THEN {"raise", "swallow"}
    ELSE {"raise"}

\* lines 170-171: stop returns early when the agent is not running
stop_returns_early(running) == ~running

\* stop() up to its await (lines 170-177)
stop_begin ==
    /\ IF stop_returns_early(_running)
         THEN /\ stop_returned' = TRUE
              /\ result' = [CallResult("stop", self_role) EXCEPT !.early = TRUE]
              /\ UNCHANGED <<_running, tasks, stopping>>
         ELSE /\ _running' = FALSE
              /\ IF _task # 0
                   THEN /\ \E c \in cancel_outcomes(_task) :
                             tasks' = [tasks EXCEPT
                                         ![_task].cancel = c,
                                         ![_task].stopped_in = situation(_task)]
                        /\ stopping' = stopping \cup {_task}
                        /\ UNCHANGED <<stop_returned, result>>
                   ELSE /\ stop_returned' = TRUE
                        /\ result' = CallResult("stop", self_role)
                        /\ UNCHANGED <<tasks, stopping>>
    /\ noop_changed' = (noop_changed \/
          (~_running /\ <<_running', tasks', stopping'>> # <<_running, tasks, stopping>>))
    /\ UNCHANGED <<_task, audit_log, dispatched, introduced, failed>>

\* mutation: the CancelledError of the awaited task reaches the caller
stop_await_result_unswallowed(t) ==
    IF t.pc = "cancelled" THEN Raised("CancelledError") ELSE Returned("None")

\* lines 176-179: await self._task; the CancelledError of a cancelled task
\* is caught
stop_await_result(t) == Returned("None")

\* stop() from its await to its return (lines 177-181)
stop_return(n) ==
    /\ n \in stopping
    /\ ~Live(tasks[n])
    /\ stopping' = stopping \ {n}
    /\ stop_returned' = (stop_returned \/ n = _task)
    /\ result' = [CallResult("stop", self_role) EXCEPT
                    !.raised = stop_await_result(tasks[n]).raised]
    /\ tasks' = [tasks EXCEPT ![n] = [NewTask EXCEPT !.pc = "joined"]]
    /\ UNCHANGED <<_running, _task, audit_log, dispatched, introduced, failed, noop_changed>>

\* mutation: the loop ends when an iteration raised
iterate_until_error(n, calls, raised) ==
    IF ~_running \/ raised THEN [pc |-> "done", calls |-> calls]
    ELSE IF receive_check(self_role).raised # "none"
      THEN [pc |-> "sleep", calls |-> calls]
    ELSE [pc |-> "receive",
          calls |-> calls @@
             (n :> [agent_role |-> self_role, timeout |-> loop_timeout,
                    detached |-> FALSE, key |-> 0])]

\* mutation: the loop ends when receive raises for an unknown identity
iterate_exit_unregistered(n, calls, raised) ==
    IF ~_running \/ receive_check(self_role).raised # "none"
      THEN [pc |-> "done", calls |-> calls]
    ELSE [pc |-> "receive",
          calls |-> calls @@
             (n :> [agent_role |-> self_role, timeout |-> loop_timeout,
                    detached |-> FALSE, key |-> 0])]

\* lines 190-193: the loop condition, then receive up to its await; calls
\* are the suspended receive calls of the other callers, raised tells
\* whether the iteration that ended caught an exception (lines 236-240)
iterate(n, calls, raised) ==
    IF ~_running THEN [pc |-> "done", calls |-> calls]
    ELSE IF receive_check(self_role).raised # "none"
      THEN [pc |-> "sleep", calls |-> calls]
    ELSE [pc |-> "receive",
          calls |-> calls @@
             (n :> [agent_role |-> self_role, timeout |-> loop_timeout,
                    detached |-> FALSE, key |-> 0])]

\* task n runs from where it is to the next await of a new iteration
next_iteration(n, raised) ==
    LET it == iterate(n, calls_without(n), raised)
    IN  /\ tasks' = [tasks EXCEPT ![n] = [NewTask EXCEPT !.pc = it.pc]]
        /\ receiving' = it.calls
        /\ detached' = held(detached, it.calls)

\* the task runs for the first time (lines 188-193)
run_loop_begin(n) ==
    /\ n \in DOMAIN tasks
    /\ tasks[n].pc = "created" /\ tasks[n].cancel = "no"
    /\ next_iteration(n, FALSE)
    /\ UNCHANGED <<agent_queues, received, audit_log, dispatched, introduced, failed>>

\* receive returned None (lines 193-195): the loop goes round
run_loop_none(n) ==
    /\ n \in DOMAIN tasks
    /\ tasks[n].pc = "receive" /\ tasks[n].cancel = "no"
    /\ wait_has_timer(receiving[n].timeout)
    /\ next_iteration(n, FALSE)
    /\ UNCHANGED <<agent_queues, received, audit_log, dispatched, introduced, failed>>

\* receive returned a message (lines 193-196), _handle_message runs up to
\* the await of log_message (lines 214-221)
run_loop_message(n) ==
    /\ n \in DOMAIN tasks
    /\ tasks[n].pc = "receive" /\ tasks[n].cancel \in {"no", "swallow"}
    /\ queue_of(receiving[n]) # <<>>
    /\ LET call == receiving[n]
           g == queue_get(queue_of(call))
       IN  /\ receiving' = calls_without(n)
           /\ IF call.detached
                THEN /\ detached' = held([detached EXCEPT ![call.key] = g.rest],
                                         calls_without(n))
                     /\ UNCHANGED agent_queues
                ELSE /\ agent_queues' = [agent_queues EXCEPT ![call.agent_role] = g.rest]
                     /\ UNCHANGED detached
           /\ received' = [received EXCEPT ![call.agent_role] = Append(@, g.item)]
           /\ tasks' = [tasks EXCEPT ![n] =
                          [NewTask EXCEPT !.pc = "log_message", !.message = g.item]]
    /\ UNCHANGED <<audit_log, dispatched, introduced, failed>>

\* the row log_message inserts (base_agent.py lines 221-227,
\* context_manager.py lines 489-496)
audit_row(message) ==
    [sender |-> message.sender, recipient |-> self_role,
     message_type |-> message.message_type, id |-> message.id]

\* mutation: a message whose processing raised is put back in the mailbox
after_failure_requeue(q, message) == Append(q, message)

\* lines 236-240: the exception is logged; the mailbox is not touched
after_failure(q, message) == q

\* the mailboxes after the processing of message raised
queues_after_failure(message) ==
    IF self_role \in DOMAIN agent_queues
      THEN [agent_queues EXCEPT ![self_role] = after_failure(@, message)]
      ELSE agent_queues

\* mutation: every message goes to handle_message
handler_of_uniform(message) == "handle_message"

\* lines 229-234: the handler a logged message is handed to
handler_of(message) ==
    IF message.message_type = "introduction"
      THEN "_handle_introduction" ELSE "handle_message"

\* mutation: log_message is guarded by a try of its own and the handler is
\* called whether the row was written or not
run_loop_logged_anyway(n, ok) ==
    /\ n \in DOMAIN tasks
    /\ tasks[n].pc = "log_message" /\ tasks[n].cancel = "no"
    /\ audit_log' = IF ok THEN Append(audit_log, audit_row(tasks[n].message))
                          ELSE audit_log
    /\ dispatched' = Append(dispatched, tasks[n].message)
    /\ tasks' = [tasks EXCEPT ![n].pc = "handle_message"]
    /\ UNCHANGED <<receiving, detached, failed, agent_queues, introduced>>
    /\ UNCHANGED received

\* log_message returned or raised (lines 221-240); when it returned the
\* handler is called and runs up to its first await (line 230 or 234)
run_loop_logged(n, ok) ==
    /\ n \in DOMAIN tasks
    /\ tasks[n].pc = "log_message" /\ tasks[n].cancel = "no"
    /\ IF ok
         THEN /\ audit_log' = Append(audit_log, audit_row(tasks[n].message))
              /\ IF handler_of(tasks[n].message) = "handle_message"
                   THEN /\ dispatched' = Append(dispatched, tasks[n].message)
                        /\ UNCHANGED introduced
                   ELSE /\ introduced' = Append(introduced, tasks[n].message)
                        /\ UNCHANGED dispatched
              /\ tasks' = [tasks EXCEPT ![n].pc = "handle_message"]
              /\ UNCHANGED <<receiving, detached, failed, agent_queues>>
         ELSE /\ failed' = failed \cup {tasks[n].message.id}
              /\ agent_queues' = queues_after_failure(tasks[n].message)
              /\ next_iteration(n, TRUE)
              /\ UNCHANGED <<audit_log, dispatched, introduced>>
    /\ UNCHANGED received

\* the handler returned or raised (lines 230-240): the loop goes round
run_loop_handled(n, ok) ==
    /\ n \in DOMAIN tasks
    /\ tasks[n].pc = "handle_message" /\ tasks[n].cancel = "no"
    /\ IF ok
         THEN UNCHANGED <<failed, agent_queues>>
         ELSE /\ failed' = failed \cup {tasks[n].message.id}
              /\ agent_queues' = queues_after_failure(tasks[n].message)
    /\ next_iteration(n, ~ok)
    /\ UNCHANGED <<received, audit_log, dispatched, introduced>>

\* asyncio.sleep(1) returned (line 204): the loop goes round
run_loop_slept(n) ==
    /\ n \in DOMAIN tasks
    /\ tasks[n].pc = "sleep" /\ tasks[n].cancel = "no"
    /\ next_iteration(n, FALSE)
    /\ UNCHANGED <<agent_queues, received, audit_log, dispatched, introduced, failed>>

\* where CancelledError, raised at the await the task is suspended in,
\* leaves the task: a task that never ran is cancelled; in the try block
\* (lines 191-196) it is caught at line 198 and the loop breaks (`except
\* Exception` at line 236 does not catch it); in the handler of line 201 it
\* leaves the coroutine
cancelled_at(pc) == IF pc \in {"created", "sleep"} THEN "cancelled" ELSE "done"

\* mutation: a message whose handling was cancelled is put back in the
\* mailbox
run_loop_cancelled_requeue(n) ==
    /\ n \in DOMAIN tasks
    /\ Live(tasks[n])
    /\ \/ tasks[n].cancel = "raise"
       \/ tasks[n].cancel = "swallow" /\ situation(n) # "message_waiting"
    /\ tasks' = [tasks EXCEPT ![n] = [NewTask EXCEPT
                                        !.pc = cancelled_at(tasks[n].pc),
                                        !.stopped_in = tasks[n].stopped_in]]
    /\ receiving' = calls_without(n)
    /\ detached' = held(detached, calls_without(n))
    /\ agent_queues' =
          IF situation(n) = "handling" /\ self_role \in DOMAIN agent_queues
            THEN [agent_queues EXCEPT ![self_role] = Append(@, tasks[n].message)]
            ELSE agent_queues
    /\ UNCHANGED <<received, audit_log, dispatched, introduced, failed>>

\* mutation: a loop that is cancelled empties the mailbox
run_loop_cancelled_flush(n) ==
    /\ n \in DOMAIN tasks
    /\ Live(tasks[n])
    /\ \/ tasks[n].cancel = "raise"
       \/ tasks[n].cancel = "swallow" /\ situation(n) # "message_waiting"
    /\ tasks' = [tasks EXCEPT ![n] = [NewTask EXCEPT
                                        !.pc = cancelled_at(tasks[n].pc),
                                        !.stopped_in = tasks[n].stopped_in]]
    /\ receiving' = calls_without(n)
    /\ detached' = held(detached, calls_without(n))
    /\ agent_queues' = [a \in DOMAIN agent_queues |-> <<>>]
    /\ UNCHANGED <<received, audit_log, dispatched, introduced, failed>>

\* the task is resumed with CancelledError
run_loop_cancelled(n) ==
    /\ n \in DOMAIN tasks
    /\ Live(tasks[n])
    /\ \/ tasks[n].cancel = "raise"
       \/ tasks[n].cancel = "swallow" /\ situation(n) # "message_waiting"
    /\ tasks' = [tasks EXCEPT ![n] = [NewTask EXCEPT
                                        !.pc = cancelled_at(tasks[n].pc),
                                        !.stopped_in = tasks[n].stopped_in]]
    /\ receiving' = calls_without(n)
    /\ detached' = held(detached, calls_without(n))
    /\ UNCHANGED <<agent_queues, received, audit_log, dispatched, introduced, failed>>

\* mutation: the agent registers with the bus before its role is verified
BaseAgent_init_register_first(role, api_key) ==
    LET authorities == get_role_authorities(role)
    IN  /\ register_agent(role)
        /\ result' = [CallResult("BaseAgent", role) EXCEPT
                        !.registered = (role \in DOMAIN agent_queues),
                        !.raised = IF authorities.raised # "none" \/ ~api_key
                                     THEN "ValueError" ELSE "none"]

\* BaseAgent.__init__ (lines 33-78): the role is verified (lines 60-65,
\* ValueError of get_role_authorities re-raised), then the API key (lines
\* 68-70, ValueError), then the agent registers with the bus (line 74)
BaseAgent_init(role, api_key) ==
    LET authorities == get_role_authorities(role)
    IN  IF authorities.raised # "none"
          THEN /\ result' = [CallResult("BaseAgent", role) EXCEPT
                               !.registered = (role \in DOMAIN agent_queues),
                               !.raised = authorities.raised]
               /\ UNCHANGED <<agent_queues, subscriptions, message_history,
                              publishing, next_id, mailbox_log, received>>
        ELSE IF ~api_key
          THEN /\ result' = [CallResult("BaseAgent", role) EXCEPT
                               !.registered = (role \in DOMAIN agent_queues),
                               !.raised = "ValueError"]
               /\ UNCHANGED <<agent_queues, subscriptions, message_history,
                              publishing, next_id, mailbox_log, received>>
        ELSE /\ register_agent(role)
             /\ result' = [CallResult("BaseAgent", role) EXCEPT
                             !.registered = (role \in DOMAIN agent_queues)]

(***************************************************************************)
(* The four agents of the squad: the subscriptions the orchestrator makes  *)
(* (main.py lines 85-94), the branches of their handle_message, and the    *)
(* handling of one message from its dequeue to the return of the handler.  *)
(***************************************************************************)
\* self._subscriptions after MultiAgentOrchestrator.initialize
orchestrator_subscriptions ==
    ("new_intelligence" :> <<"intelligence_analyst">>)
 @@ ("processed_intelligence" :> <<"intelligence_analyst">>)
 @@ ("processed_intel_report" :> <<"intelligence_analyst">>)
 @@ ("coverage_assessment" :> <<"mission_planner">>)
 @@ ("strategic_assessment" :> <<"mission_planner">>)
 @@ ("drone_status_alert" :> <<"mission_planner">>)
 @@ ("new_mission_plan" :> <<"collection_manager">>)

\* the message types the if/elif chain of each handle_message names
handled_types ==
    ("mission_planner" :>
        {"coverage_assessment", "strategic_assessment", "casual_chat",
         "mission_debrief"})
 @@ ("intelligence_analyst" :>
        {"processed_intelligence", "processed_intel_report", "new_intelligence",
         "casual_chat", "mission_debrief"})
 @@ ("collection_manager" :>
        {"new_mission_plan", "casual_chat", "mission_debrief"})
 @@ ("collection_processor" :>
        {"sensor_data", "intel_report", "casual_chat", "mission_debrief"})

\* the branch a dequeued message is handled in: _handle_introduction
\* (base_agent.py line 229), the branch of handle_message that names its
\* type, or the else branch that logs an unknown message type
branch_of(role, message_type) ==
    IF message_type = "introduction" THEN "_handle_introduction"
    ELSE IF message_type \in handled_types[role] THEN message_type
    ELSE "unknown"

\* mutation: a casual_chat of another agent is answered
may_reply_chatty(role, message) ==
    \/ message.message_type = "mission_debrief"
    \/ message.message_type \in {"introduction", "casual_chat"}
          /\ message.sender # role

\* the handlers that call send_message: _handle_mission_debrief (in relaxed
\* mode, when call_llm returns) and _handle_introduction (base_agent.py
\* lines 248-262: not for the agent's own introduction, in casual mode,
\* before it has introduced itself, with probability 0.3);
\* _handle_casual_chat only logs
may_reply(role, message) ==
    \/ message.message_type = "mission_debrief"
    \/ message.message_type = "introduction" /\ message.sender # role

\* _handle_message of the oldest message of the role's queue, from receive
\* to the return of the handler, when log_message succeeds; reply tells
\* whether the handler reaches its send_message, a broadcast of type
\* casual_chat.  The handlers of the other message types are entered, not
\* run.
handle(role, reply) ==
    /\ role \in DOMAIN agent_queues
    /\ agent_queues[role] # <<>>
    /\ LET g == queue_get(agent_queues[role])
           out == Message(role, ALL, "casual_chat", next_id + 1)
           to == IF reply THEN recipients_of(out) \cap DOMAIN agent_queues ELSE {}
       IN  /\ reply => may_reply(role, g.item)
           /\ agent_queues' =
                 [a \in DOMAIN agent_queues |->
                    LET q == IF a = role THEN g.rest ELSE agent_queues[a]
                    IN  IF a \in to THEN queue_put(q, out) ELSE q]
           /\ message_history' = IF reply THEN history_append(message_history, out)
                                           ELSE message_history
           /\ next_id' = IF reply THEN next_id + 1 ELSE next_id
           /\ result' = [CallResult("handle_message", role) EXCEPT
                           !.message = g.item,
                           !.branch = branch_of(role, g.item.message_type),
                           !.enqueued = Cardinality(to)]
    /\ UNCHANGED <<subscriptions, publishing, mailbox_log, received>>

\* the agent object after __init__ (lines 76-78)
NoAgent ==
    /\ _running = FALSE
    /\ _task = 0
    /\ tasks = <<>>
    /\ stopping = {}
    /\ audit_log = <<>>
    /\ dispatched = <<>>
    /\ introduced = <<>>
    /\ failed = {}
    /\ stop_returned = FALSE
    /\ noop_changed = FALSE

(***************************************************************************)
(* Steps of the bus.                                                       *)
(***************************************************************************)
\* bound on the entries of the subscription table during set-up
MaxSubscriptions == 2

RECURSIVE SumLen(_, _)
SumLen(d, S) ==
    IF S = {} THEN 0
    ELSE LET t == CHOOSE t \in S : TRUE IN Len(d[t]) + SumLen(d, S \ {t})

TotalSubscriptions == SumLen(subscriptions, DOMAIN subscriptions)

\* what a step of the bus leaves alone
not_bus == <<actor, required, drone_state, pending_async, call_result,
             lookup_result, queues_before, call_vars, agent_vars>>

Register == (\E a \in Agents : register_agent(a)) /\ UNCHANGED not_bus
Unregister == (\E a \in Agents : unregister_agent(a)) /\ UNCHANGED not_bus
Subscribe ==
    (\E a \in Agents, t \in Types : subscribe(a, t)) /\ UNCHANGED not_bus
Unsubscribe ==
    (\E a \in Agents, t \in Types : unsubscribe(a, t)) /\ UNCHANGED not_bus
\* send (lines 164-188): a Message is constructed and published
Publish(senders, types) ==
    /\ \E s \in senders, r \in Recipients, t \in types : publish_begin(s, r, t)
    /\ UNCHANGED not_bus
\* the same, the queues at the call recorded
PublishObserved(senders, types) ==
    /\ \E s \in senders, r \in Recipients, t \in types : publish_begin(s, r, t)
    /\ queues_before' = agent_queues
    /\ UNCHANGED <<guard_vars, call_vars, agent_vars>>
PublishDeliver ==
    /\ \E p \in publishing, a \in Agents : publish_deliver(p, a)
    /\ UNCHANGED not_bus
PublishReturn == (\E p \in publishing : publish_return(p)) /\ UNCHANGED not_bus
Receive == (\E a \in Agents : receive(a)) /\ UNCHANGED not_bus

(***************************************************************************)
(* Spec: the bus is set up (register, unregister, subscribe, unsubscribe   *)
(* in any order), then messages are published one publish call at a time.  *)
(***************************************************************************)
SetUp == next_id = 0

Init == BusInit /\ NoGuard /\ NoCalls /\ NoAgent

Next ==
    \/ (SetUp /\ Register)
    \/ (SetUp /\ Unregister)
    \/ (SetUp /\ TotalSubscriptions < MaxSubscriptions /\ Subscribe)
    \/ (SetUp /\ Unsubscribe)
    \/ (next_id < MaxPublishes /\ publishing = {} /\ PublishObserved(Agents, Types))
    \/ PublishDeliver
    \/ PublishReturn

Spec == Init /\ [][Next]_vars

(***************************************************************************)
(* SpecConc: concurrent publishers.  Every identity is registered and is   *)
(* a task that may be inside publish(); a task is inside one publish at a  *)
(* time, the publishes of different tasks interleave at the awaits of the  *)
(* delivery loop.                                                          *)
(***************************************************************************)
\* total number of publish() calls of the concurrent tasks
MaxConcurrent == 2

\* the message type of the subscription tables below; the concurrent tasks
\* publish messages of this type
SubscribedTypes == {"ping"}

\* subscription tables the set-up may have left: at most one subscriber of
\* "ping", none of "update"
SubscriptionTables == {<<>>} \cup {("ping" :> <<a>>) : a \in Agents}

\* the bus after register_agent for every identity and the subscribe calls
RegisteredInit ==
    /\ agent_queues = [a \in Agents |-> <<>>]
    /\ subscriptions \in SubscriptionTables
    /\ message_history = <<>>
    /\ publishing = {}
    /\ next_id = 0
    /\ mailbox_log = [a \in Agents |-> <<>>]
    /\ received = [a \in Agents |-> <<>>]
    /\ queues_before = <<>>

\* the tasks that are not inside publish()
IdleTasks == Agents \ {p.message.sender : p \in publishing}

InitConc == RegisteredInit /\ NoGuard /\ NoCalls /\ NoAgent

NextConc ==
    \/ (next_id < MaxConcurrent /\ Publish(IdleTasks, SubscribedTypes))
    \/ PublishDeliver
    \/ PublishReturn

SpecConc == InitConc /\ [][NextConc]_vars

(***************************************************************************)
(* SpecFifo: messages are published one publish call at a time and the     *)
(* identities receive them.                                                *)
(***************************************************************************)
\* total number of publish() calls
MaxQueued == 2

InitFifo == RegisteredInit /\ NoGuard /\ NoCalls /\ NoAgent

NextFifo ==
    \/ (next_id < MaxQueued /\ publishing = {} /\ Publish(Agents, Types))
    \/ PublishDeliver
    \/ PublishReturn
    \/ Receive

SpecFifo == InitFifo /\ [][NextFifo]_vars

(***************************************************************************)
(* SpecAuthority: calls of get_role_authorities and has_authority.         *)
(***************************************************************************)
GetRoleAuthorities ==
    /\ \E r \in RoleInputs : lookup("get_role_authorities", r, "none")
    /\ UNCHANGED <<bus_vars, call_vars, agent_vars>>
HasAuthority ==
    /\ \E r \in RoleInputs, a \in Authority : lookup("has_authority", r, a)
    /\ UNCHANGED <<bus_vars, call_vars, agent_vars>>

NextAuthority ==
    \/ GetRoleAuthorities
    \/ HasAuthority

InitAuthority == BusInit /\ NoGuard /\ NoCalls /\ NoAgent

SpecAuthority == InitAuthority /\ [][NextAuthority]_vars

(***************************************************************************)
(* SpecGuard: calls of the guard-wrapped operations of one actor object,   *)
(* a blocking one and a suspending one wrapped with the same authority.    *)
(***************************************************************************)
SyncCall ==
    /\ drone_state < MaxCommands
    /\ \E c \in Commands : sync_wrapper(c)
    /\ UNCHANGED <<bus_vars, call_vars, agent_vars>>
AsyncCall ==
    /\ drone_state < MaxCommands
    /\ \E c \in Commands : async_wrapper_begin(c)
    /\ UNCHANGED <<bus_vars, call_vars, agent_vars>>
AsyncBody ==
    /\ \E c \in pending_async : async_wrapper_await(c)
    /\ UNCHANGED <<bus_vars, call_vars, agent_vars>>

NextGuard ==
    \/ SyncCall
    \/ AsyncCall
    \/ AsyncBody

InitGuard == BusInit /\ GuardInit /\ NoCalls /\ NoAgent

SpecGuard == InitGuard /\ [][NextGuard]_vars

(***************************************************************************)
(* SpecRole: as SpecGuard, and the role attribute of the actor object, a   *)
(* plain attribute (base_agent.py line 50), is assigned between the calls  *)
(* and while the body of a suspending call is awaited.                     *)
(***************************************************************************)
SetRole ==
    /\ actor.has_role
    /\ \E r \in RoleInputs \ {actor.role} : actor' = [actor EXCEPT !.role = r]
    /\ UNCHANGED <<required, drone_state, pending_async, call_result, lookup_result>>
    /\ UNCHANGED <<bus_vars, call_vars, agent_vars>>

InitRole == InitGuard

NextRole ==
    \/ SyncCall
    \/ AsyncCall
    \/ AsyncBody
    \/ SetRole

SpecRole == InitRole /\ [][NextRole]_vars

(***************************************************************************)
(* SpecCalls: one task calls receive, publish and unregister_agent, one    *)
(* call at a time, and observes what each call returns or raises; other    *)
(* tasks register identities.                                              *)
(***************************************************************************)
\* total number of publish() calls of the observed task
MaxCallPublishes == 2

\* the observed task, as a caller of receive
Caller == 0

\* the identities the calls name
CallAgents == {"alpha", "bravo"}

\* the state the calls of the observed task leave alone
not_calls == <<queues_before, guard_vars, agent_vars>>

RegisterCall ==
    /\ \E a \in CallAgents : register_agent(a)
    /\ UNCHANGED call_vars
    /\ UNCHANGED not_calls

ReceiveCall ==
    /\ ~result.pending
    /\ \E a \in CallAgents, timeout \in Timeouts :
         LET check == receive_check(a)
         IN  IF check.raised # "none"
               THEN /\ result' = [CallResult("receive", a) EXCEPT
                                    !.timeout = timeout, !.raised = check.raised]
                    /\ UNCHANGED <<bus_vars, receiving, detached>>
               ELSE /\ receive_begin(Caller, a, timeout)
                    /\ result' = [CallResult("receive", a) EXCEPT
                                    !.timeout = timeout, !.registered = TRUE,
                                    !.pending = TRUE]
    /\ UNCHANGED not_calls

ReceiveGet ==
    /\ Caller \in DOMAIN receiving
    /\ receive_get(Caller)
    /\ result' = [result EXCEPT
                    !.pending = FALSE,
                    !.message = queue_get(queue_of(receiving[Caller])).item]
    /\ UNCHANGED not_calls

ReceiveTimeout ==
    /\ receive_timeout(Caller)
    /\ result' = [result EXCEPT !.pending = FALSE]
    /\ UNCHANGED not_calls

\* unregister_agent, called by the observed task or, while the observed task
\* is suspended in receive, by another task
UnregisterCall ==
    /\ \E a \in CallAgents :
         /\ unregister_agent(a)
         /\ detach_waiters(a)
         /\ result' = IF result.pending THEN result
                      ELSE [CallResult("unregister_agent", a) EXCEPT
                              !.registered = (a \in DOMAIN agent_queues),
                              !.raised = unregister_agent_result(a).raised,
                              !.queues_changed = (agent_queues' # agent_queues)]
    /\ UNCHANGED not_calls

\* publish, called by the observed task or, while the observed task is
\* suspended in receive, by another task
PublishCall ==
    /\ next_id < MaxCallPublishes
    /\ \E r \in CallAgents \cup {ALL} :
         LET message == Message("alpha", r, "ping", next_id + 1)
         IN  /\ publish_now("alpha", r, "ping")
             /\ result' = IF result.pending THEN result
                          ELSE [CallResult("publish", r) EXCEPT
                                  !.registered = (r \in DOMAIN agent_queues),
                                  !.message = message,
                                  !.raised = publish_result(message).raised,
                                  !.enqueued =
                                      IF r \in Agents
                                        THEN Len(mailbox_log'[r]) - Len(mailbox_log[r])
                                        ELSE 0]
    /\ UNCHANGED <<receiving, detached>>
    /\ UNCHANGED not_calls

(***************************************************************************)
(* SpecRace: tasks call register_agent, unregister_agent, subscribe,       *)
(* unsubscribe and publish in any order, one publish at a time; a publish  *)
(* may be suspended at each await of its delivery loop while the other     *)
(* calls run.  The last configuration call and its outcome are recorded    *)
(* in result.                                                              *)
(***************************************************************************)
\* total number of publish() calls
MaxRacePublishes == 1

\* the task that publishes is not one of the identities the calls name
RaceSenders == {"charlie"}

RegisterRace ==
    /\ \E a \in CallAgents :
         /\ register_agent(a)
         /\ result' = [CallResult("register_agent", a) EXCEPT
                         !.registered = (a \in DOMAIN agent_queues),
                         !.raised = register_agent_result(a).raised,
                         !.messages = register_agent_result(a).value]
    /\ UNCHANGED <<queues_before, guard_vars, agent_vars, receiving, detached>>

SubscribeRace ==
    /\ \E a \in CallAgents, t \in SubscribedTypes :
         /\ subscribe(a, t)
         /\ result' = [CallResult("subscribe", a) EXCEPT
                         !.message_type = t,
                         !.subscribed = (t \in DOMAIN subscriptions
                                          /\ a \in Range(subscriptions[t])),
                         !.raised = subscribe_result(a, t).raised]
    /\ UNCHANGED <<queues_before, guard_vars, agent_vars, receiving, detached>>

UnsubscribeRace ==
    /\ \E a \in CallAgents, t \in Types :
         /\ unsubscribe(a, t)
         /\ result' = [CallResult("unsubscribe", a) EXCEPT
                         !.message_type = t,
                         !.subscribed = (t \in DOMAIN subscriptions
                                          /\ a \in Range(subscriptions[t])),
                         !.raised = subscribe_result(a, t).raised]
    /\ UNCHANGED <<queues_before, guard_vars, agent_vars, receiving, detached>>

InitRace == BusInit /\ NoGuard /\ NoCalls /\ NoAgent

NextRace ==
    \/ RegisterRace
    \/ UnregisterCall
    \/ SubscribeRace
    \/ UnsubscribeRace
    \/ (next_id < MaxRacePublishes /\ publishing = {}
          /\ Publish(RaceSenders, SubscribedTypes))
    \/ PublishDeliver
    \/ PublishReturn

SpecRace == InitRace /\ [][NextRace]_vars

(***************************************************************************)
(* SpecConstruct: agents are constructed on one bus with role strings the  *)
(* role table defines or not, with or without an API key; identities are   *)
(* unregistered.                                                           *)
(***************************************************************************)
Construct ==
    /\ \E role \in RoleInputs, api_key \in BOOLEAN : BaseAgent_init(role, api_key)
    /\ UNCHANGED <<queues_before, guard_vars, agent_vars, receiving, detached>>

UnregisterRole ==
    /\ \E role \in RoleInputs : unregister_agent(role)
    /\ UNCHANGED not_bus

InitConstruct == BusInit /\ NoGuard /\ NoCalls /\ NoAgent

NextConstruct ==
    \/ Construct
    \/ UnregisterRole

SpecConstruct == InitConstruct /\ [][NextConstruct]_vars

(***************************************************************************)
(* SpecFifoFair: one task publishes to two registered identities, by name  *)
(* or by broadcast, one publish at a time.  The task inside publish is     *)
(* scheduled whenever it can run; nothing is assumed of the consumers,     *)
(* which may never call receive.                                           *)
(***************************************************************************)
\* total number of publish() calls
MaxBacklog == 2

PublishBacklog ==
    /\ next_id < MaxBacklog
    /\ publishing = {}
    /\ \E r \in CallAgents \cup {ALL} : publish_begin("charlie", r, "ping")
    /\ UNCHANGED not_bus

InitFifoFair ==
    /\ agent_queues = [a \in CallAgents |-> <<>>]
    /\ subscriptions = <<>>
    /\ message_history = <<>>
    /\ publishing = {}
    /\ next_id = 0
    /\ mailbox_log = [a \in Agents |-> <<>>]
    /\ received = [a \in Agents |-> <<>>]
    /\ queues_before = <<>>
    /\ NoGuard /\ NoCalls /\ NoAgent

NextFifoFair ==
    \/ PublishBacklog
    \/ PublishDeliver
    \/ PublishReturn
    \/ Receive

SpecFifoFair ==
    /\ InitFifoFair
    /\ [][NextFifoFair]_vars
    /\ WF_vars(PublishDeliver)
    /\ WF_vars(PublishReturn)

InitCalls == BusInit /\ NoGuard /\ NoCalls /\ NoAgent

NextCalls ==
    \/ RegisterCall
    \/ UnregisterCall
    \/ PublishCall
    \/ ReceiveCall
    \/ ReceiveGet
    \/ ReceiveTimeout

SpecCalls == InitCalls /\ [][NextCalls]_vars

(***************************************************************************)
(* SpecHistory: tasks publish, and the history is read with                *)
(* get_message_history.                                                    *)
(***************************************************************************)
\* total number of publish() calls
MaxHistoryPublishes == 3
\* the largest limit get_message_history is called with
MaxLimit == 3

GetMessageHistory ==
    /\ \E limit \in 0..MaxLimit :
         /\ UNCHANGED bus_vars
         /\ result' = [CallResult("get_message_history", "none") EXCEPT
                         !.limit = limit,
                         !.messages = get_message_history(limit),
                         !.history = message_history,
                         !.history_after = message_history']
    /\ UNCHANGED <<receiving, detached, guard_vars, agent_vars>>

\* no identity is registered: every delivery set is empty
InitHistory == BusInit /\ NoGuard /\ NoCalls /\ NoAgent

NextHistory ==
    \/ (next_id < MaxHistoryPublishes /\ Publish({"alpha"}, SubscribedTypes))
    \/ PublishReturn
    \/ GetMessageHistory

SpecHistory == InitHistory /\ [][NextHistory]_vars

(***************************************************************************)
(* SpecAgent: one agent object is started and stopped by any number of     *)
(* tasks while another identity sends it messages and its identity is      *)
(* unregistered and registered again.  SpecAgentFair adds what the event   *)
(* loop guarantees: a task that can run does run, and an awaited call      *)
(* (log_message, handle_message, a timer) completes.  SpecConsume is the   *)
(* same with fewer loops and more messages.                                *)
(***************************************************************************)
\* SpecAgent: number of _run_loop tasks start() creates, messages sent
MaxStarts == 2
MaxSent == 1
\* SpecConsume: number of _run_loop tasks start() creates, messages sent
MaxLoops == 1
MaxHandled == 2
\* SpecAgentFair: number of _run_loop tasks start() creates, messages sent
MaxStopStarts == 1
MaxStopSent == 1
\* SpecAudit: number of _run_loop tasks start() creates, messages sent
MaxAuditStarts == 1
MaxAuditSent == 1

\* what a lifecycle call leaves alone
not_lifecycle == <<bus_vars, guard_vars, receiving, detached>>

\* what a step of a _run_loop task leaves alone
not_run_loop == <<subscriptions, message_history, publishing, next_id, mailbox_log,
                  queues_before, guard_vars, result, _running, _task, stopping,
                  stop_returned, noop_changed>>

Start(starts) ==
    /\ Len(tasks) < starts \/ ~start_spawns(_running)
    /\ start
    /\ UNCHANGED not_lifecycle
Stop == stop_begin /\ UNCHANGED not_lifecycle
StopReturn == (\E n \in stopping : stop_return(n)) /\ UNCHANGED not_lifecycle

RunLoopBegin(n) == run_loop_begin(n) /\ UNCHANGED not_run_loop
RunLoopNone(n) == run_loop_none(n) /\ UNCHANGED not_run_loop
RunLoopMessage(n) == run_loop_message(n) /\ UNCHANGED not_run_loop
RunLoopLogged(n) == (\E ok \in BOOLEAN : run_loop_logged(n, ok)) /\ UNCHANGED not_run_loop
RunLoopHandled(n) == (\E ok \in BOOLEAN : run_loop_handled(n, ok)) /\ UNCHANGED not_run_loop
RunLoopSlept(n) == run_loop_slept(n) /\ UNCHANGED not_run_loop
RunLoopCancelled(n) == run_loop_cancelled(n) /\ UNCHANGED not_run_loop

\* a step of task n
RunLoop(n) ==
    \/ RunLoopBegin(n)
    \/ RunLoopNone(n)
    \/ RunLoopMessage(n)
    \/ RunLoopLogged(n)
    \/ RunLoopHandled(n)
    \/ RunLoopSlept(n)
    \/ RunLoopCancelled(n)

\* another identity sends the agent a message
AgentSend(sent, recipients, types) ==
    /\ next_id < sent
    /\ \E r \in recipients, t \in types : publish_now("bravo", r, t)
    /\ UNCHANGED not_bus

\* the agent's identity is unregistered; suspended receive calls keep the queue
AgentUnregister ==
    /\ self_role \in DOMAIN agent_queues
    /\ unregister_agent(self_role)
    /\ detach_waiters(self_role)
    /\ UNCHANGED <<queues_before, guard_vars, result, agent_vars>>

AgentRegister ==
    /\ self_role \notin DOMAIN agent_queues
    /\ register_agent(self_role)
    /\ UNCHANGED not_bus

\* the bus and the agent after BaseAgent.__init__ (lines 50-78)
InitAgent ==
    /\ agent_queues = (self_role :> <<>>)
    /\ subscriptions = <<>>
    /\ message_history = <<>>
    /\ publishing = {}
    /\ next_id = 0
    /\ mailbox_log = [a \in Agents |-> <<>>]
    /\ received = [a \in Agents |-> <<>>]
    /\ queues_before = <<>>
    /\ NoGuard /\ NoCalls /\ NoAgent

NextAgentWith(starts, sent) ==
    \/ Start(starts)
    \/ Stop
    \/ StopReturn
    \/ \E n \in 1..starts : RunLoop(n)
    \/ AgentSend(sent, {self_role}, SubscribedTypes)
    \/ AgentUnregister
    \/ AgentRegister

NextAgent == NextAgentWith(MaxStarts, MaxSent)

SpecAgent == InitAgent /\ [][NextAgent]_vars

NextConsume == NextAgentWith(MaxLoops, MaxHandled)

InitConsume == InitAgent

SpecConsume == InitConsume /\ [][NextConsume]_vars

\* SpecAudit: the agent is subscribed to "ping"; it is sent messages by
\* name, by broadcast and through its subscription (a message of type
\* "ping" named to another identity), of type "ping" or "introduction"
AuditRecipients == {self_role, ALL, "charlie"}
AuditTypes == {"ping", "introduction"}

InitAudit ==
    /\ agent_queues = (self_role :> <<>>)
    /\ subscriptions = ("ping" :> <<self_role>>)
    /\ message_history = <<>>
    /\ publishing = {}
    /\ next_id = 0
    /\ mailbox_log = [a \in Agents |-> <<>>]
    /\ received = [a \in Agents |-> <<>>]
    /\ queues_before = <<>>
    /\ NoGuard /\ NoCalls /\ NoAgent

\* the identity stays registered: receive does not raise and the loop
\* never reaches the sleep of line 204
AuditLoop(n) ==
    \/ RunLoopBegin(n)
    \/ RunLoopNone(n)
    \/ RunLoopMessage(n)
    \/ RunLoopLogged(n)
    \/ RunLoopHandled(n)
    \/ RunLoopCancelled(n)

NextAudit ==
    \/ Start(MaxAuditStarts)
    \/ Stop
    \/ StopReturn
    \/ \E n \in 1..MaxAuditStarts : AuditLoop(n)
    \/ AgentSend(MaxAuditSent, AuditRecipients, AuditTypes)

SpecAudit == InitAudit /\ [][NextAudit]_vars

(***************************************************************************)
(* SpecShared: several agent objects were constructed with the same role.  *)
(* register_agent (line 74) gave each of them the queue the first one      *)
(* created (message_bus.py lines 65-67).  Each is started once and none is *)
(* stopped: _running stands for the flag of every started object, and      *)
(* tasks[n] is the loop of the n-th object.                                *)
(***************************************************************************)
\* number of agent objects with the role, messages sent
MaxRuntimes == 2
MaxSharedSent == 2

\* start() of the next object that was not started (lines 158-166)
SharedStart ==
    /\ Len(tasks) < MaxRuntimes
    /\ _running' = TRUE
    /\ tasks' = Append(tasks, NewTask)
    /\ _task' = Len(tasks) + 1
    /\ UNCHANGED <<stopping, audit_log, dispatched, introduced, failed,
                   stop_returned, noop_changed, result>>
    /\ UNCHANGED not_lifecycle

\* no object is stopped and the identity stays registered: no loop is
\* cancelled and none reaches the sleep of line 204
SharedLoop(n) ==
    \/ RunLoopBegin(n)
    \/ RunLoopNone(n)
    \/ RunLoopMessage(n)
    \/ RunLoopLogged(n)
    \/ RunLoopHandled(n)

InitShared == InitAgent

NextShared ==
    \/ SharedStart
    \/ \E n \in 1..MaxRuntimes : SharedLoop(n)
    \/ AgentSend(MaxSharedSent, {self_role}, SubscribedTypes)

SpecShared == InitShared /\ [][NextShared]_vars

(***************************************************************************)
(* SpecRestart: the agent is started, stopped and started again; start is  *)
(* called when no stop call is in progress, and another identity sends the *)
(* agent messages while it is stopped.  Its identity stays registered.     *)
(***************************************************************************)
\* number of _run_loop tasks start() creates, messages sent
MaxRestartStarts == 2
MaxRestartSent == 2

\* a call of stop has returned, none is in progress, start was not called
Stopped == stop_returned /\ ~_running /\ stopping = {}

InitRestart == InitAgent

NextRestart ==
    \/ (stopping = {} /\ Start(MaxRestartStarts))
    \/ Stop
    \/ StopReturn
    \/ \E n \in 1..MaxRestartStarts : AuditLoop(n)
    \/ (Stopped /\ AgentSend(MaxRestartSent, {self_role}, SubscribedTypes))

SpecRestart == InitRestart /\ [][NextRestart]_vars

(***************************************************************************)
(* SpecSquad: the four agents are registered and subscribed as the         *)
(* orchestrator does; agents send each other messages of the subscribed    *)
(* types by name, and every agent handles the messages of its queue.       *)
(***************************************************************************)
\* messages sent
MaxSquadSent == 1

Squad == DOMAIN ROLE_AUTHORITIES

SquadSend(sent, senders, recipients, types) ==
    /\ next_id < sent
    /\ \E s \in senders, r \in recipients, t \in types : publish_now(s, r, t)
    /\ UNCHANGED not_bus

SquadHandle ==
    /\ \E role \in Squad, reply \in BOOLEAN : handle(role, reply)
    /\ UNCHANGED <<queues_before, guard_vars, receiving, detached, agent_vars>>

InitSquad ==
    /\ agent_queues = [role \in Squad |-> <<>>]
    /\ subscriptions = orchestrator_subscriptions
    /\ message_history = <<>>
    /\ publishing = {}
    /\ next_id = 0
    /\ mailbox_log = [a \in Agents |-> <<>>]
    /\ received = [a \in Agents |-> <<>>]
    /\ queues_before = <<>>
    /\ NoGuard /\ NoCalls /\ NoAgent

NextSquad ==
    \/ SquadSend(MaxSquadSent, Squad, Squad, DOMAIN orchestrator_subscriptions)
    \/ SquadHandle

SpecSquad == InitSquad /\ [][NextSquad]_vars

(***************************************************************************)
(* SpecChat: the squad in its chat exchange.  The agents introduce         *)
(* themselves and chat to all, the orchestrator sends mission_debrief to   *)
(* all as "system" (main.py lines 245-248), and every agent handles the    *)
(* messages of its queue.  The loops of the agents are running tasks of    *)
(* one event loop, which runs a task that is ready: some message that is   *)
(* waiting is handled, which is the fairness stated.                       *)
(***************************************************************************)
\* messages sent by introduce_self, by the orchestrator, or as chat from
\* outside the handlers
MaxChatSent == 1

\* the agents that take part in the exchange
ChatSquad == {"mission_planner", "collection_manager", "intelligence_analyst"}

InitChat ==
    /\ agent_queues = [role \in ChatSquad |-> <<>>]
    /\ subscriptions = orchestrator_subscriptions
    /\ message_history = <<>>
    /\ publishing = {}
    /\ next_id = 0
    /\ mailbox_log = [a \in Agents |-> <<>>]
    /\ received = [a \in Agents |-> <<>>]
    /\ queues_before = <<>>
    /\ NoGuard /\ NoCalls /\ NoAgent

NextChat ==
    \/ SquadSend(MaxChatSent, ChatSquad \cup {"system"}, {ALL},
                 {"introduction", "mission_debrief", "casual_chat"})
    \/ SquadHandle

SpecChat == InitChat /\ [][NextChat]_vars /\ WF_vars(SquadHandle)

NextStop == NextAgentWith(MaxStopStarts, MaxStopSent)

InitStop == InitAgent

\* the event loop runs every task that can run, and the awaited calls of the
\* loop (receive with its timer, log_message, handle_message, sleep) complete
SpecAgentFair ==
    /\ InitStop
    /\ [][NextStop]_vars
    /\ \A n \in 1..MaxStopStarts : WF_vars(RunLoop(n))
    /\ WF_vars(StopReturn)

(***************************************************************************)
(* Properties of publish.  A publish whose delivery loop is over           *)
(* (loop_done) is about to return; queues_before is the queues as they     *)
(* were when it was called.  Spec runs one publish at a time.              *)
(***************************************************************************)
Registered == DOMAIN agent_queues

\* the identities subscribed to a type
SubscribersOf(t) ==
    IF t \in DOMAIN subscriptions THEN Range(subscriptions[t]) ELSE {}

\* the named mailbox holds what it held before the publish, then the message
GotOneCopy(p, a) ==
    agent_queues[a] = Append(queues_before[a], p.message)

\* the named mailbox holds what it held before the publish
Untouched(p, a) == agent_queues[a] = queues_before[a]

\* C1: a publish from A addressed to B (A, B registered and distinct, not
\* the broadcast sentinel) of a type nobody is subscribed to has, when it
\* returns, put exactly one copy in B's mailbox and changed no other mailbox
C1_DirectDelivery ==
    \A p \in publishing :
        LET m == p.message
        IN  ( /\ loop_done(p)
              /\ m.recipient # ALL
              /\ m.sender # m.recipient
              /\ {m.sender, m.recipient} \subseteq Registered
              /\ SubscribersOf(m.message_type) = {} )
            => /\ GotOneCopy(p, m.recipient)
               /\ \A a \in Registered \ {m.recipient} : Untouched(p, a)

C1_Witness ==
    \E p \in publishing :
        /\ loop_done(p)
        /\ p.message.recipient # ALL
        /\ p.message.sender # p.message.recipient
        /\ Registered = Agents
        /\ SubscribersOf(p.message.message_type) = {}
        /\ Len(agent_queues[p.message.recipient]) = 1

\* C2: a publish from A addressed to "all" has, when it returns, put exactly
\* one copy in the mailbox of every registered identity other than A and
\* none in A's, whoever is subscribed to the message's type
C2_Broadcast ==
    \A p \in publishing :
        (loop_done(p) /\ p.message.recipient = ALL)
            => \A a \in Registered :
                  IF a = p.message.sender THEN Untouched(p, a)
                  ELSE GotOneCopy(p, a)

C2_Witness ==
    \E p \in publishing :
        /\ loop_done(p)
        /\ p.message.recipient = ALL
        /\ Registered = Agents
        /\ p.message.sender \in SubscribersOf(p.message.message_type)
        /\ Cardinality(SubscribersOf(p.message.message_type)) = 2
        /\ \A a \in Agents \ {p.message.sender} : Len(agent_queues[a]) = 1

\* C3: with S registered, subscribed to T and not the sender, a publish of
\* type T addressed to a registered R other than S has, when it returns, put
\* the message in S's and in R's mailbox; a sender that is not the named
\* recipient got nothing, subscribed to T or not
C3_SubscriptionDelivery ==
    \A p \in publishing :
        LET m == p.message
        IN  loop_done(p) /\ m.recipient # ALL
            => /\ \A S \in (SubscribersOf(m.message_type) \cap Registered)
                              \ {m.sender, m.recipient} :
                      m.recipient \in Registered
                        => GotOneCopy(p, S) /\ GotOneCopy(p, m.recipient)
               /\ (m.sender \in Registered /\ m.sender # m.recipient)
                      => Untouched(p, m.sender)

C3_Witness ==
    \E p \in publishing :
        LET m == p.message
        IN  /\ loop_done(p)
            /\ Registered = Agents
            /\ m.recipient \in Agents \ {m.sender}
            /\ m.sender \in SubscribersOf(m.message_type)
            /\ \E S \in SubscribersOf(m.message_type) \ {m.sender, m.recipient} :
                  Len(agent_queues[S]) = 1
            /\ agent_queues[m.sender] = <<>>

\* C4: a publish puts at most one copy of its message in any mailbox, and
\* exactly one in the mailbox of an identity that is the named recipient and
\* a subscriber, or a subscriber and a broadcast target
C4_OneCopyPerMailbox ==
    \A p \in publishing :
        LET m == p.message
            subs == (SubscribersOf(m.message_type) \cap Registered) \ {m.sender}
        IN  /\ \A a \in Registered : Untouched(p, a) \/ GotOneCopy(p, a)
            /\ loop_done(p)
                 => \A a \in subs :
                       (a = m.recipient \/ m.recipient = ALL) => GotOneCopy(p, a)

C4_Witness ==
    \E p \in publishing :
        LET m == p.message
        IN  /\ loop_done(p)
            /\ m.recipient \in SubscribersOf(m.message_type) \cap Registered
            /\ m.recipient # m.sender
            /\ m.sender \in Registered
            /\ Len(agent_queues[m.recipient]) = 1
            /\ agent_queues[m.sender] = <<>>

(***************************************************************************)
(* Concurrent publishers (SpecConc) and receive order (SpecFifo).          *)
(***************************************************************************)
\* the messages published so far that history still holds
Published == Range(message_history)

\* the publish call of a message, if it has not returned yet
InFlight(m) == {p \in publishing : p.message = m}

\* C5: under every interleaving of the publishes of concurrent tasks, each
\* mailbox of a publish's delivery set has received exactly one copy of the
\* message once the publish is over (and none before its turn in the loop),
\* no other mailbox has received any, and history holds one entry per
\* publish, in publish order, up to the eviction bound
C5_NoLossNoDuplication ==
    /\ \A p \in publishing : \A a \in Agents :
          Count(p.message, agent_queues[a]) =
              IF a \in p.recipients THEN 1 - p.pending[a] ELSE 0
    /\ \A m \in Published : InFlight(m) = {} =>
          \A a \in Agents :
              Count(m, agent_queues[a]) = IF a \in recipients_of(m) THEN 1 ELSE 0
    /\ Len(message_history) = IF next_id < max_history THEN next_id ELSE max_history
    /\ \A i \in 1..Len(message_history) :
          message_history[i].id = next_id - Len(message_history) + i

\* two publishes have run interleaved: two mailboxes hold the same two
\* messages in opposite orders, and both publishes have returned
C5_Witness ==
    /\ publishing = {}
    /\ next_id = 2
    /\ \E x, y \in Agents :
          /\ Len(agent_queues[x]) = 2 /\ Len(agent_queues[y]) = 2
          /\ agent_queues[x][1] = agent_queues[y][2]
          /\ agent_queues[x][2] = agent_queues[y][1]
          /\ agent_queues[x][1].sender # agent_queues[x][2].sender

\* C6: per-mailbox FIFO: what receive has returned for an identity, followed
\* by what is still queued for it, is what publish put in its mailbox, in
\* the order of the puts
C6_MailboxFifo ==
    \A a \in Agents : mailbox_log[a] = received[a] \o agent_queues[a]

C6_Witness ==
    \E a \in Agents :
        /\ Len(received[a]) = 2
        /\ received[a][1].id < received[a][2].id

(***************************************************************************)
(* Properties of the guard (SpecGuard) and of the authority functions      *)
(* (SpecAuthority).                                                        *)
(***************************************************************************)
Wrappers == {"sync", "async"}

\* the pair is an entry of the role-permission table
Listed(role, authority) ==
    role \in DOMAIN ROLE_AUTHORITIES /\ authority \in ROLE_AUTHORITIES[role]

\* C7: when the role of the calling actor lacks the required authority, a
\* call of a guard-wrapped operation raises UnauthorizedActionError carrying
\* that role and that authority, the body does not run, no coroutine of the
\* body is left to run, and the state the body modifies is as it was
C7_UnauthorizedNoEffect ==
    (actor.has_role /\ ~Listed(actor.role, required))
        => /\ \A w \in Wrappers :
                call_result[w].called
                  => /\ call_result[w].raised = "UnauthorizedActionError"
                     /\ call_result[w].error_role = actor.role
                     /\ call_result[w].error_authority = required
                     /\ call_result[w].body_runs = 0
           /\ pending_async = {}
           /\ drone_state = 0

\* collection_processor has called both drone-command operations
C7_Witness ==
    /\ actor = [has_role |-> TRUE, role |-> "collection_processor"]
    /\ required = "COMMAND_DRONES"
    /\ \A w \in Wrappers :
          call_result[w].called /\ call_result[w].raised = "UnauthorizedActionError"

\* C8: the wrapper of a blocking operation and the wrapper of a suspending
\* one decide alike for the same role and authority, and a call that is
\* allowed has run the body once and returns the body's result
C8_SyncAsyncAgree ==
    /\ (call_result["sync"].called /\ call_result["async"].called)
          => call_result["sync"].raised = call_result["async"].raised
    /\ \A w \in Wrappers :
          (call_result[w].called /\ call_result[w].raised = "none")
              => /\ call_result[w].body_runs = 1
                 /\ call_result[w].value = command_result(call_result[w].command)
    /\ \A w \in Wrappers :
          call_result[w].called
              => (call_result[w].raised = "none"
                    <=> (actor.has_role /\ Listed(actor.role, required)))

\* collection_manager has commanded a drone through both wrappers, with
\* different commands
C8_Witness ==
    /\ actor = [has_role |-> TRUE, role |-> "collection_manager"]
    /\ required = "COMMAND_DRONES"
    /\ \A w \in Wrappers : call_result[w].called /\ call_result[w].raised = "none"
    /\ call_result["sync"].command # call_result["async"].command
    /\ drone_state = 2

\* C9: has_authority returns TRUE exactly for the pairs the table lists,
\* FALSE for every other pair, a role the table does not define included,
\* and never raises
C9_HasAuthority ==
    LET r == lookup_result["has_authority"]
    IN  r.called
          => /\ r.outcome.raised = "none"
             /\ r.outcome.value \in BOOLEAN
             /\ r.outcome.value = Listed(r.role, r.authority)

C9_Witness ==
    LET r == lookup_result["has_authority"]
    IN  /\ r.called
        /\ r.role = "ghost"
        /\ r.outcome = Returned(FALSE)

\* the role-permission table as the specification states it
StatedRoleTable ==
    [role \in {"collection_processor", "intelligence_analyst",
               "mission_planner", "collection_manager"} |->
        CASE role = "collection_processor" ->
               {"READ_SENSOR_DATA", "READ_INTEL", "WRITE_PROCESSED_INTEL"}
          [] role = "intelligence_analyst" ->
               {"READ_COP", "WRITE_COP"}
          [] role = "mission_planner" ->
               {"READ_COP", "READ_PLANS", "READ_DRONE_STATUS", "WRITE_PLANS",
                "MODIFY_PLANS"}
          [] role = "collection_manager" ->
               {"READ_COP", "READ_PLANS", "READ_DRONE_STATUS",
                "WRITE_COLLECTION_TASKS", "CREATE_COLLECTION_TASKS",
                "COMMAND_DRONES"}]

\* C10: the table get_role_authorities answers from defines exactly the
\* four roles with the stated sets, only collection_manager holds
\* COMMAND_DRONES and only intelligence_analyst holds WRITE_COP
C10_RoleTable ==
    LET r == lookup_result["get_role_authorities"]
    IN  /\ r.called
          => IF r.role \in DOMAIN StatedRoleTable
               THEN r.outcome = Returned(StatedRoleTable[r.role])
               ELSE r.outcome.raised = "ValueError"
        /\ r.called /\ r.outcome.raised = "none"
          => /\ "COMMAND_DRONES" \in r.outcome.value <=> r.role = "collection_manager"
             /\ "WRITE_COP" \in r.outcome.value <=> r.role = "intelligence_analyst"
             /\ r.outcome.value \subseteq Authority

C10_Witness ==
    LET r == lookup_result["get_role_authorities"]
    IN  /\ r.called
        /\ r.role = "collection_manager"
        /\ "COMMAND_DRONES" \in r.outcome.value

(***************************************************************************)
(* Properties of BaseAgent.start, BaseAgent.stop and the loop              *)
(***************************************************************************)
\* the _run_loop tasks that have not finished
LiveTasks == {n \in DOMAIN tasks : Live(tasks[n])}

C12_NoDispatchAfterStop ==
    [][(stop_returned /\ stop_returned')
         => /\ dispatched' = dispatched
            /\ received'[self_role] = received[self_role]]_vars

\* the situations of the loop C13 names, and the task that has not run yet
StopSituations == {"created", "empty_mailbox", "handling", "sleeping"}

\* C13: a stop call that found the agent running with its loop waiting on
\* an empty mailbox, handling a message or sleeping after a caught error
\* eventually returns, and no stop call raises
C13_StopReturns ==
    /\ [](result.op = "stop" => result.raised = "none")
    /\ \A n \in 1..MaxStopStarts :
         (n \in stopping /\ tasks[n].stopped_in \in StopSituations)
            ~> (n \notin stopping)

\* stop cancelled a loop that was sleeping after a caught error; the
\* CancelledError left the task and stop is about to return
C13_Witness ==
    \E n \in stopping :
        /\ tasks[n].stopped_in = "sleeping"
        /\ tasks[n].pc = "cancelled"

\* C14: a step in which log_message or handle_message raises leaves
\* _running as it was, and while the agent is running the task that caught
\* the error is suspended at the await of its next iteration: in receive,
\* or in the sleep of line 204 when its identity is not registered
C14_FailureIsolation ==
    [][failed' # failed
         => /\ _running' = _running
            /\ _running =>
                 \E n \in DOMAIN tasks :
                     /\ tasks[n].pc \in {"log_message", "handle_message"}
                     /\ tasks[n].message.id \in failed' \ failed
                     /\ tasks'[n].pc \in {"receive", "sleep"}]_vars

\* the processing of the first message raised and the second message was
\* dispatched to handle_message by the same running loop
C14_Witness ==
    /\ 1 \in failed
    /\ _running /\ Len(tasks) = 1
    /\ \E i \in DOMAIN dispatched : dispatched[i].id = 2

\* the messages dispatched to handle_message, by id
DispatchedIds == {dispatched[i].id : i \in DOMAIN dispatched}

\* the ids of the messages in a queue
Ids(q) == {q[i].id : i \in DOMAIN q}

\* the messages some mailbox holds: the registered queues and the deleted
\* queues suspended receive calls still hold
QueuedIds ==
    UNION ({Ids(agent_queues[a]) : a \in DOMAIN agent_queues}
             \cup {Ids(detached[k]) : k \in DOMAIN detached})

\* C15: no message is taken from the agent's mailbox twice or dispatched to
\* handle_message twice, and a message whose processing raised is in no
\* mailbox
C15_AtMostOnce ==
    /\ \A i, j \in DOMAIN dispatched :
          dispatched[i].id = dispatched[j].id => i = j
    /\ \A i, j \in DOMAIN received[self_role] :
          received[self_role][i].id = received[self_role][j].id => i = j
    /\ failed \cap QueuedIds = {}

\* handle_message raised on one message, the loop went on to dispatch
\* another, and the mailbox is empty
C15_Witness ==
    /\ failed \cap DispatchedIds # {}
    /\ Len(dispatched) = 2
    /\ self_role \in DOMAIN agent_queues /\ agent_queues[self_role] = <<>>

(***************************************************************************)
(* Properties of receive, unregister_agent and publish as their caller     *)
(* observes them                                                           *)
(***************************************************************************)
\* C16: a receive call that was given a timeout, whatever its value, and
\* waits on an empty mailbox can return None by the timeout elapsing
C16_TimeoutReturnsNone ==
    (/\ Caller \in DOMAIN receiving
     /\ receiving[Caller].timeout.given
     /\ queue_of(receiving[Caller]) = <<>>)
        => ENABLED ReceiveTimeout

\* C17: a receive call naming an identity that is not registered raises
\* ValueError in the step of the call, without suspending and without
\* changing the queues, the subscriptions, the history or the suspended
\* receive calls
C17_UnknownAgent ==
    [][(/\ ~result.pending
        /\ result' # result
        /\ result'.op = "receive"
        /\ result'.agent_role \notin DOMAIN agent_queues)
         => /\ result'.raised = "ValueError"
            /\ ~result'.pending
            /\ UNCHANGED <<agent_queues, subscriptions, message_history,
                           publishing, next_id, received, receiving, detached>>]_vars

\* receive raised ValueError for an identity that had been registered, had
\* been sent a message and was unregistered since
C17_Witness ==
    /\ result.op = "receive"
    /\ result.raised = "ValueError"
    /\ result.agent_role \notin DOMAIN agent_queues
    /\ mailbox_log[result.agent_role] # <<>>

\* the call the observed task made last named an identity that was not
\* registered
NamedUnregistered ==
    /\ ~result.pending
    /\ ~result.registered
    /\ result.agent_role \in Agents

\* C18 as stated: publish to a named recipient that is not registered and
\* unregister_agent of an identity that is not registered raise an error
C18_FailFast ==
    (result.op \in {"publish", "unregister_agent"} /\ NamedUnregistered)
        => result.raised # "none"

\* C18 as amended: both calls return without an error; the publish puts
\* nothing in a queue of the named recipient and the unregister leaves the
\* queues as they were
C18_CompleteSilently ==
    /\ (result.op = "publish" /\ NamedUnregistered)
          => (result.raised = "none" /\ result.enqueued = 0)
    /\ (result.op = "unregister_agent" /\ NamedUnregistered)
          => (result.raised = "none" /\ ~result.queues_changed)

\* publish returned for a recipient that had been registered, had been sent
\* a message and was unregistered before this publish
C18_Witness ==
    /\ result.op = "publish" /\ NamedUnregistered
    /\ result.raised = "none"
    /\ Len(mailbox_log[result.agent_role]) = 1
    /\ result.message.id = 2

(***************************************************************************)
(* Properties of the message history                                       *)
(***************************************************************************)
\* the smaller of two numbers
Smaller(a, b) == IF a < b THEN a ELSE b

\* C19: after n publishes the history holds the min(n, _max_history) most
\* recently published messages in publish order: never more than
\* _max_history, and only the oldest are evicted
C19_BoundedHistory ==
    /\ Len(message_history) = Smaller(next_id, max_history)
    /\ \A i \in DOMAIN message_history :
          message_history[i].id = next_id - Len(message_history) + i

\* one publish more than _max_history: the first message was evicted
C19_Witness ==
    /\ next_id = max_history + 1
    /\ Len(message_history) = max_history
    /\ message_history[1].id = 2

\* C20: get_message_history(limit) returns the min(limit, history size)
\* most recently published messages, newest first, and leaves the history
\* as it was
C20_RecentNewestFirst ==
    result.op = "get_message_history"
        => /\ result.messages =
                 [i \in 1..Smaller(result.limit, Len(result.history)) |->
                     result.history[Len(result.history) + 1 - i]]
           /\ result.history_after = result.history

(***************************************************************************)
(* Properties of publish, the history and the configuration calls          *)
(***************************************************************************)
\* the number of entries of the history that are the message with this id
InHistory(id) ==
    Cardinality({i \in DOMAIN message_history : message_history[i].id = id})

\* C21: every published message that has not been evicted is in the history
\* exactly once, whatever its delivery set; a publish whose delivery set is
\* empty leaves every mailbox as it was and is able to return
C21_HistoryOnce ==
    /\ \A id \in 1..next_id :
          InHistory(id) = (IF id > next_id - max_history THEN 1 ELSE 0)
    /\ \A p \in publishing :
          p.recipients = {}
            => /\ agent_queues = queues_before
               /\ ENABLED PublishReturn

\* a publish named to an identity that is not registered, with no
\* subscriber of its type, has returned: the message is in the history and
\* the registered mailboxes are empty
C21_Witness ==
    /\ next_id = 1 /\ publishing = {}
    /\ InHistory(1) = 1
    /\ message_history[1].recipient \in Agents \ DOMAIN agent_queues
    /\ message_history[1].message_type \notin DOMAIN subscriptions
    /\ DOMAIN agent_queues # {}
    /\ \A a \in DOMAIN agent_queues : agent_queues[a] = <<>>

\* the step is the call of op recorded in result'
Called(op) == result' # result /\ result'.op = op

\* the identity is in no subscription list of the table
Unsubscribed(agent_role, table) ==
    \A t \in DOMAIN table : agent_role \notin Range(table[t])

\* C22: register_agent on a registered identity returns the existing queue
\* with the messages in it and changes neither the queues nor the
\* subscriptions
C22_RegisterIdempotent ==
    [][(Called("register_agent") /\ result'.agent_role \in DOMAIN agent_queues)
         => /\ result'.raised = "none"
            /\ result'.messages = agent_queues[result'.agent_role]
            /\ agent_queues' = agent_queues
            /\ subscriptions' = subscriptions]_vars

\* register_agent was called for an identity that was registered, had a
\* message queued and was subscribed to "ping": the message is still queued
\* and the identity is still subscribed
C22_Witness ==
    /\ result.op = "register_agent" /\ result.registered
    /\ result.messages # <<>>
    /\ result.agent_role \in DOMAIN agent_queues
    /\ agent_queues[result.agent_role] = result.messages
    /\ "ping" \in DOMAIN subscriptions
    /\ result.agent_role \in Range(subscriptions["ping"])

\* C23: unregister_agent deletes the queue of the identity with what it
\* holds and leaves the identity in no subscription list; register_agent on
\* an identity that is not registered gives it an empty queue and no
\* subscription, and when it is the next configuration call after the
\* unregister_agent of the identity, the identity is in no subscription list
C23_UnregisterPurges ==
    [][/\ Called("unregister_agent")
          => /\ result'.agent_role \notin DOMAIN agent_queues'
             /\ Unsubscribed(result'.agent_role, subscriptions')
       /\ (Called("register_agent") /\ result'.agent_role \notin DOMAIN agent_queues)
          => /\ agent_queues'[result'.agent_role] = <<>>
             /\ subscriptions' = subscriptions
             /\ (result.op = "unregister_agent"
                   /\ result.agent_role = result'.agent_role)
                  => Unsubscribed(result'.agent_role, subscriptions')]_vars

\* an identity that had received a message through its subscription (the
\* message names another recipient) was unregistered with the message in
\* its queue and registered again: its queue is empty and the list of
\* "ping" is empty
C23_Witness ==
    /\ result.op = "register_agent" /\ ~result.registered
    /\ agent_queues[result.agent_role] = <<>>
    /\ Len(mailbox_log[result.agent_role]) = 1
    /\ mailbox_log[result.agent_role][1].recipient \notin {result.agent_role, ALL}
    /\ subscriptions["ping"] = <<>>

\* the identity is in the subscription list of the type
IsSubscribed(agent_role, message_type) ==
    /\ message_type \in DOMAIN subscriptions
    /\ agent_role \in Range(subscriptions[message_type])

\* C24: no identity is twice in a subscription list and no mailbox is put
\* the same message twice; subscribe of an identity that is subscribed to
\* the type, and unsubscribe of an identity that is not (or of a type that
\* has no list), change nothing
C24_SubscribeIdempotent ==
    /\ [](\A t \in DOMAIN subscriptions, a \in Agents :
             Count(a, subscriptions[t]) <= 1)
    /\ [](\A a \in Agents, id \in 1..next_id :
             Cardinality({i \in DOMAIN mailbox_log[a] : mailbox_log[a][i].id = id}) <= 1)
    /\ [][(Called("subscribe")
             /\ IsSubscribed(result'.agent_role, result'.message_type))
           => UNCHANGED <<agent_queues, subscriptions, message_history>>]_vars
    /\ [][(Called("unsubscribe")
             /\ ~IsSubscribed(result'.agent_role, result'.message_type))
           => UNCHANGED <<agent_queues, subscriptions, message_history>>]_vars

\* subscribe was called for an identity that was subscribed to "ping"; a
\* message of that type named to another identity was published after it
\* and the identity was put one copy
C24_Witness ==
    /\ result.op = "subscribe" /\ result.subscribed
    /\ next_id = 1 /\ publishing = {}
    /\ Len(mailbox_log[result.agent_role]) = 1
    /\ mailbox_log[result.agent_role][1].recipient \notin {result.agent_role, ALL}
    /\ Count(result.agent_role, subscriptions["ping"]) = 1

\* the suspended publish of the message, after the step
After(p) == {q \in publishing' : q.message = p.message}

\* C26: with the configuration calls interleaved at the awaits of a publish,
\* no call raises; a publish ends only when its delivery loop is over; each
\* iteration of the loop puts the message once in the queue of a recipient
\* that is registered and puts nothing for one that is not; and when the
\* loop is over every recipient that was registered at its turn has been
\* put exactly one copy and an identity that was not has been put none
C26_RaceSafe ==
    /\ [](result.raised = "none")
    /\ [](\A p \in publishing :
             loop_done(p) =>
                \A a \in Agents :
                    Count(p.message, mailbox_log[a])
                       = (IF a \in p.recipients \ p.skipped THEN 1 ELSE 0))
    /\ [][\A p \in publishing :
             /\ After(p) = {} => loop_done(p)
             /\ \A q \in After(p), a \in Agents :
                   q.pending[a] < p.pending[a]
                     => IF a \in DOMAIN agent_queues
                          THEN /\ a \notin q.skipped
                               /\ agent_queues' =
                                     [agent_queues EXCEPT ![a] = Append(@, p.message)]
                          ELSE /\ a \in q.skipped
                               /\ agent_queues' = agent_queues]_vars

\* a broadcast was suspended in its delivery loop while one of its two
\* recipients was unregistered: the loop is over, the recipient that stayed
\* was put the message and the removed one was skipped
C26_Witness ==
    \E p \in publishing :
        /\ loop_done(p)
        /\ p.recipients = {"alpha", "bravo"}
        /\ p.skipped = {"alpha"}
        /\ result.op = "unregister_agent" /\ result.agent_role = "alpha"
        /\ Count(p.message, mailbox_log["bravo"]) = 1
        /\ Count(p.message, mailbox_log["alpha"]) = 0

(***************************************************************************)
(* Properties of BaseAgent.__init__                                        *)
(***************************************************************************)
\* C25: constructing an agent with a role the role table does not define
\* raises ValueError and leaves the bus as it was, and no identity with
\* such a role has a mailbox
C25_UnknownRole ==
    /\ [](DOMAIN agent_queues \subseteq DOMAIN ROLE_AUTHORITIES)
    /\ [][(Called("BaseAgent") /\ result'.agent_role \notin DOMAIN ROLE_AUTHORITIES)
           => /\ result'.raised = "ValueError"
              /\ UNCHANGED <<agent_queues, subscriptions, message_history,
                             publishing, next_id>>]_vars

\* the construction with role "ghost" raised on a bus where other agents
\* are registered
C25_Witness ==
    /\ result.op = "BaseAgent"
    /\ result.agent_role = "ghost"
    /\ result.raised = "ValueError"
    /\ "ghost" \notin DOMAIN agent_queues
    /\ Cardinality(DOMAIN agent_queues) = 2

(***************************************************************************)
(* Properties of publish with consumers that may not run                   *)
(***************************************************************************)
\* C27: a publish that has been called returns, whatever its recipients'
\* queues already hold and whether or not any of them is ever received
C27_PublishNeverWaits == (publishing # {}) ~> (publishing = {})

\* a second publish has returned after putting its message in a queue that
\* still held the first; no message was ever received
C27_Witness ==
    /\ publishing = {}
    /\ next_id = 2
    /\ \E a \in DOMAIN agent_queues : Len(agent_queues[a]) = 2
    /\ \A a \in Agents : received[a] = <<>>

(***************************************************************************)
(* Properties of BaseAgent._handle_message                                 *)
(***************************************************************************)
\* the messages handed to a handler, in handle_message or in
\* _handle_introduction
Handled ==
    {dispatched[i] : i \in DOMAIN dispatched}
        \cup {introduced[i] : i \in DOMAIN introduced}

\* the rows of the audit log written for the message with this id
Rows(id) == {i \in DOMAIN audit_log : audit_log[i].id = id}

\* the number of times the message with this id occurs in h
Times(id, h) == Cardinality({j \in DOMAIN h : h[j].id = id})

\* C28: a message that was handed to a handler, and the message of a task
\* that is inside a handler, has its row in the audit log: log_message
\* returned for it before the handler was called
C28_LoggedBeforeHandled ==
    /\ [](/\ \A message \in Handled : Rows(message.id) # {}
          /\ \A n \in DOMAIN tasks :
                tasks[n].pc = "handle_message"
                    => Rows(tasks[n].message.id) # {})
    /\ [][\A message \in Handled' \ Handled :
              \E i \in DOMAIN audit_log' : audit_log'[i].id = message.id]_vars

\* the loop is inside handle_message with a message whose row is written
C28_Witness ==
    /\ Len(dispatched) = 1
    /\ Rows(dispatched[1].id) # {}
    /\ \E n \in DOMAIN tasks :
           tasks[n].pc = "handle_message" /\ tasks[n].message = dispatched[1]

\* C29: the row written for a consumed message has the sender, the
\* recipient and the type of the message: "all" for a broadcast, the named
\* recipient for a message that came through a subscription
C29_RowOfMessage ==
    \A message \in Handled : \A i \in Rows(message.id) :
        /\ audit_log[i].sender = message.sender
        /\ audit_log[i].recipient = message.recipient
        /\ audit_log[i].message_type = message.message_type

\* C30 as stated: every message whose row was written was handed to
\* handle_message exactly once, whatever its message_type
C30_HandleMessageOnce ==
    \A i \in DOMAIN audit_log : Times(audit_log[i].id, dispatched) = 1

\* C30: every message whose row was written was handed to exactly one
\* handler, once: to _handle_introduction when its message_type is
\* "introduction", to handle_message otherwise
C30_OneHandlerOnce ==
    \A i \in DOMAIN audit_log :
        IF audit_log[i].message_type = "introduction"
          THEN /\ Times(audit_log[i].id, introduced) = 1
               /\ Times(audit_log[i].id, dispatched) = 0
          ELSE /\ Times(audit_log[i].id, dispatched) = 1
               /\ Times(audit_log[i].id, introduced) = 0

\* the row of an "introduction" message is written and the message went to
\* _handle_introduction, not to handle_message
C30_Witness ==
    /\ Len(audit_log) = 1
    /\ audit_log[1].message_type = "introduction"
    /\ Len(introduced) = 1 /\ introduced[1].id = audit_log[1].id
    /\ dispatched = <<>>

\* C31: when log_message raises for a dequeued message, the message is
\* still handed to a handler
C31_DispatchedDespiteLogFailure ==
    [][\A n \in DOMAIN tasks :
          (tasks[n].pc = "log_message" /\ tasks[n].message.id \in failed' \ failed)
              => tasks[n].message \in Handled']_vars

(***************************************************************************)
(* Properties of the guard when the role attribute changes (SpecRole)      *)
(***************************************************************************)
\* the role the actor has now is listed with the required authority
Allowed == actor.has_role /\ Listed(actor.role, required)

\* C32: every call of a guard-wrapped operation is decided by the role the
\* actor has when the call is made: the blocking call runs the body exactly
\* when that role is listed with the required authority, the suspending
\* call awaits the body exactly when it is; what the role was at an earlier
\* call, or when the object was built, does not matter
C32_RoleAtCallTime ==
    [][/\ (call_result'["sync"] # call_result["sync"])
            => /\ (call_result'["sync"].raised = "none") <=> Allowed
               /\ (call_result'["sync"].raised = "UnauthorizedActionError")
                     => call_result'["sync"].error_role = actor.role
       /\ (pending_async' \ pending_async # {}) => Allowed
       /\ (call_result'["async"] # call_result["async"] /\ pending_async = {}
             /\ call_result'["async"].called)
            => /\ call_result'["async"].raised # "none"
               /\ ~Allowed]_vars

\* the same object was refused as collection_processor and, after its role
\* was set to collection_manager, allowed to run the body
C32_Witness ==
    /\ actor = [has_role |-> TRUE, role |-> "collection_manager"]
    /\ required = "COMMAND_DRONES"
    /\ call_result["async"].called
    /\ call_result["async"].raised = "UnauthorizedActionError"
    /\ call_result["async"].error_role = "collection_processor"
    /\ call_result["sync"].called /\ call_result["sync"].raised = "none"
    /\ drone_state = 1

(***************************************************************************)
(* Properties of stop and start around a message being handled             *)
(***************************************************************************)
\* C33: a loop that stop cancels inside _handle_message ends there: its
\* message goes back to no mailbox, and no message is handed to a handler
\* twice, whatever start and stop calls follow
C33_StopDropsMessage ==
    /\ [][\A n \in DOMAIN tasks :
            (/\ tasks[n].pc \in {"log_message", "handle_message"}
             /\ tasks[n].stopped_in = "handling"
             /\ tasks'[n] # tasks[n])
              => /\ tasks'[n].pc = "done"
                 /\ tasks'[n].message = NoMessage
                 /\ agent_queues' = agent_queues
                 /\ tasks[n].message.id \notin QueuedIds'
                 /\ dispatched' = dispatched]_vars
    /\ [](\A m \in Handled :
             /\ Times(m.id, dispatched) + Times(m.id, introduced) = 1
             /\ m.id \notin QueuedIds)

\* the first loop was stopped inside handle_message and has ended; the
\* agent was started again, its second loop waits on the empty mailbox and
\* the message was dispatched once
C33_Witness ==
    /\ Len(tasks) = 2
    /\ tasks[1].pc = "done" /\ tasks[1].stopped_in = "handling"
    /\ _running /\ tasks[2].pc = "receive"
    /\ Len(dispatched) = 1
    /\ self_role \in DOMAIN agent_queues /\ agent_queues[self_role] = <<>>
    /\ audit_log # <<>>

(***************************************************************************)
(* Properties of publish for a sender that names itself                    *)
(***************************************************************************)
\* C34: a publish whose named recipient is its registered sender has, when
\* it returns, put one copy in the sender's own mailbox, subscribed or not;
\* a publish whose recipient is the broadcast sentinel or another identity
\* leaves the sender's mailbox as it was, even when the sender is
\* subscribed to the type
C34_SelfAddressed ==
    \A p \in publishing :
        LET m == p.message
        IN  (loop_done(p) /\ m.sender \in Registered)
              => IF m.recipient = m.sender
                   THEN GotOneCopy(p, m.sender)
                   ELSE Untouched(p, m.sender)

\* alpha, subscribed to "ping", has sent itself a "ping" and holds one copy
C34_Witness ==
    \E p \in publishing :
        /\ loop_done(p)
        /\ p.message.sender = "alpha" /\ p.message.recipient = "alpha"
        /\ p.message.message_type = "ping"
        /\ "alpha" \in SubscribersOf("ping")
        /\ "alpha" \in Registered
        /\ agent_queues["alpha"] = <<p.message>>

(***************************************************************************)
(* Properties of a subscription made before the registration               *)
(***************************************************************************)
\* C35: subscribe of an identity that is not registered raises nothing,
\* puts the identity in the list of the type and creates no queue; a
\* publish counts every subscriber of its type but the sender among its
\* recipients, and at the turn of one that is not registered it changes no
\* queue and goes on; register_agent of an identity that is not registered
\* leaves the subscriptions as they are
C35_SubscribeBeforeRegister ==
    /\ [][(Called("subscribe") /\ result'.agent_role \notin DOMAIN agent_queues)
            => /\ result'.raised = "none"
               /\ result'.message_type \in DOMAIN subscriptions'
               /\ result'.agent_role \in Range(subscriptions'[result'.message_type])
               /\ agent_queues' = agent_queues]_vars
    /\ [][\A q \in publishing' \ publishing :
             (\A p \in publishing : p.message # q.message)
               => \A a \in SubscribersOf(q.message.message_type) \ {q.message.sender} :
                     a \in q.recipients /\ q.pending[a] = 1]_vars
    /\ [][\A p \in publishing : \A q \in After(p) : \A a \in Agents :
             (q.pending[a] < p.pending[a] /\ a \notin DOMAIN agent_queues)
               => /\ agent_queues' = agent_queues
                  /\ result' = result]_vars
    /\ [][(Called("register_agent") /\ result'.agent_role \notin DOMAIN agent_queues)
            => subscriptions' = subscriptions]_vars

\* an identity was subscribed to "ping" before it had a queue and was then
\* registered; through that subscription it was put a "ping" named to the
\* other identity
C35_Witness ==
    \E p \in publishing :
        /\ loop_done(p) /\ p.skipped = {}
        /\ result.op = "register_agent" /\ ~result.registered
        /\ IsSubscribed(result.agent_role, "ping")
        /\ p.message.message_type = "ping"
        /\ p.message.recipient \in CallAgents \ {result.agent_role}
        /\ agent_queues[result.agent_role] = <<p.message>>

(***************************************************************************)
(* Properties of the loop of an agent whose identity is unregistered       *)
(***************************************************************************)
\* the agent's identity has a queue
SelfRegistered == self_role \in DOMAIN agent_queues

\* C36: unregistering the identity of the agent changes neither _running
\* nor its loop tasks; while the agent is running, a loop that starts an
\* iteration when the identity is not registered is suspended in the sleep
\* of line 204 (receive raised, the error was caught) and one that starts
\* an iteration when it is registered is suspended in receive; and as long
\* as no stop is in progress a running agent has its loop live
C36_UnregisteredKeepsRunning ==
    /\ [][(SelfRegistered /\ ~SelfRegistered')
            => (_running' = _running /\ _task' = _task /\ tasks' = tasks)]_vars
    /\ [][\A n \in DOMAIN tasks :
            (/\ _running /\ Live(tasks[n]) /\ tasks[n].cancel = "no"
             /\ tasks'[n].pc # tasks[n].pc
             /\ tasks'[n].pc \notin {"log_message", "handle_message"})
              => tasks'[n].pc = IF SelfRegistered THEN "receive" ELSE "sleep"]_vars
    /\ []((_running /\ stopping = {} /\ ~SelfRegistered)
             => (_task \in DOMAIN tasks /\ Live(tasks[_task])))

\* the identity was unregistered after the running agent had handled a
\* message; its loop now sleeps between two attempts to receive
C36_Witness ==
    /\ _running /\ stopping = {}
    /\ ~SelfRegistered
    /\ Len(dispatched) = 1
    /\ tasks[_task].pc = "sleep"

(***************************************************************************)
(* Properties of agent objects that share an identity (SpecShared)         *)
(***************************************************************************)
\* C37: the objects have one queue between them; no message is returned by
\* receive twice, no two loops hold the same message, and no message is
\* handed to a handler more than once, by whichever object
C37_SharedMailbox ==
    /\ DOMAIN agent_queues = {self_role}
    /\ \A id \in 1..next_id :
          /\ Times(id, received[self_role]) <= 1
          /\ Times(id, dispatched) + Times(id, introduced) <= 1
          /\ Cardinality({n \in DOMAIN tasks : tasks[n].message.id = id}) <= 1

\* two objects with the role are running and each is inside handle_message
\* with one of the two messages sent to the role
C37_Witness ==
    /\ Len(tasks) = 2
    /\ tasks[1].pc = "handle_message" /\ tasks[2].pc = "handle_message"
    /\ tasks[1].message # tasks[2].message
    /\ Len(dispatched) = 2
    /\ agent_queues[self_role] = <<>>

(***************************************************************************)
(* Properties of a restart (SpecRestart)                                   *)
(***************************************************************************)
\* C38: start called after stop has returned spawns a new loop and leaves
\* the mailbox as it is; while the agent is stopped its mailbox loses
\* nothing and nothing is received or dispatched; at all times the messages
\* put in the mailbox are those received, in the order they were put,
\* followed by those still queued, and they are dispatched in that order
C38_RestartKeepsMail ==
    /\ [][(stop_returned /\ ~stop_returned')
            => /\ ~_running /\ _running'
               /\ Len(tasks') = Len(tasks) + 1
               /\ _task' = Len(tasks') /\ tasks'[_task'] = NewTask
               /\ agent_queues' = agent_queues]_vars
    /\ [][(Stopped /\ Stopped')
            => /\ received' = received /\ dispatched' = dispatched
               /\ \/ agent_queues' = agent_queues
                  \/ \E m \in Range(message_history') :
                        agent_queues' = [agent_queues EXCEPT
                                           ![self_role] = Append(@, m)]]_vars
    /\ [](/\ mailbox_log[self_role]
               = received[self_role] \o agent_queues[self_role]
          /\ \A i, j \in DOMAIN dispatched :
                i < j => dispatched[i].id < dispatched[j].id)

\* two messages were sent while the agent was stopped; the loop of the
\* second start has dispatched them in the order they were sent
C38_Witness ==
    /\ Len(tasks) = 2 /\ tasks[1].pc = "joined"
    /\ _running /\ tasks[2].pc = "handle_message"
    /\ Len(mailbox_log[self_role]) = 2
    /\ dispatched = mailbox_log[self_role]
    /\ dispatched[1].id = 1 /\ dispatched[2].id = 2

(***************************************************************************)
(* Properties of the handlers of the squad                                 *)
(***************************************************************************)
\* C40: a message an agent handles, of a type the orchestrator subscribed
\* the agent to, is handled in a branch that names its type, not in the
\* branch for unknown message types
C40_SubscribedTypesHandled ==
    (/\ result.op = "handle_message"
     /\ IsSubscribed(result.agent_role, result.message.message_type))
        => result.branch # "unknown"

\* the mailboxes of all agents are empty
MailboxesEmpty == \A role \in DOMAIN agent_queues : agent_queues[role] = <<>>

\* the step sent nothing: no identifier was taken, nothing was recorded, and
\* no queue grew
SentNothing ==
    /\ next_id' = next_id
    /\ message_history' = message_history
    /\ \A role \in DOMAIN agent_queues :
          Len(agent_queues'[role]) <= Len(agent_queues[role])

\* the step sent one message, a casual_chat to all from the given role
SentOneChat(role) ==
    /\ next_id' = next_id + 1
    /\ LET out == message_history'[Len(message_history')]
       IN  /\ out.id = next_id'
           /\ out.sender = role
           /\ out.recipient = ALL
           /\ out.message_type = "casual_chat"
    /\ \A other \in DOMAIN agent_queues :
          Len(agent_queues'[other]) <= Len(agent_queues[other]) + 1

\* C39: handling a casual_chat sends nothing; handling an introduction or a
\* mission_debrief sends nothing or one casual_chat to all; and from some
\* point on the mailboxes of all agents are and stay empty
C39_ChatTerminates ==
    /\ [][(Called("handle_message") /\ result'.message.message_type = "casual_chat")
            => SentNothing]_vars
    /\ [][(Called("handle_message")
            /\ result'.message.message_type \in {"introduction", "mission_debrief"})
            => (SentNothing \/ SentOneChat(result'.agent_role))]_vars
    /\ <>[]MailboxesEmpty

\* an agent answered a message with a casual_chat, and that chat and all
\* other messages have been handled
C39_Witness ==
    /\ MailboxesEmpty
    /\ result.op = "handle_message"
    /\ result.message.message_type = "casual_chat"
    /\ result.message.id > 1
    /\ result.message.sender \in Squad

=============================================================================
